---- MODULE Spec2Model ----
(***************************************************************************)
(* flask-dependant: dependency resolution and request binding.             *)
(*                                                                         *)
(* One FlaskDependant instance registers one handler (FlaskDependant.      *)
(* __call__), which builds the Dependant tree and the body field, and then *)
(* serves requests through get_route_handler.wrapper: body parsing,        *)
(* solve_dependencies inside an ExitStack, the handler call, the unwinding *)
(* of the ExitStack and the response.                                      *)
(***************************************************************************)
EXTENDS Integers, Sequences, FiniteSets, TLC

VARIABLES
    app_dependencies,   \* FlaskDependant.dependencies (instance-level Depends)
    call_dependencies,  \* the dependencies argument of FlaskDependant.__call__
    decorated,          \* the callable the decorator was applied to
    dependant,          \* the root Dependant closed over by the route handler
    body_field,         \* the body_field closed over by the route handler
    heap,               \* the default objects of the fields (shared, mutable)
    pc,                 \* position of get_route_handler.wrapper
    req,                \* the request being served
    body,               \* wrapper's local `body`
    solved_result,      \* wrapper's local `solved_result` (values, errors, cache)
    stack,              \* the ExitStack: entered context managers, oldest first
    pending,            \* the exception travelling up the wrapper ("None": none)
    exc_response,       \* the response attribute of that exception
    log,                \* what happened while serving the current request
    threads,            \* the wrapper calls of concurrent requests, one per thread
    handler_dicts,      \* the exception-handler dict objects, by identity
    apps                \* the FlaskDependant instances, the constructed one first

vars == <<app_dependencies, call_dependencies, decorated, dependant, body_field, heap, pc,
          req, body,
          solved_result, stack, pending, exc_response, log, threads, handler_dicts, apps>>

(***************************************************************************)
(* Bounds of the model.                                                    *)
(***************************************************************************)
\* longest list of per-call dependencies given at registration
MaxCallDeps == 1

\* most FlaskDependant instances alive: the constructed one and its forks
MaxApps == 3

\* the deepest stack of is_scalar_field calls the interpreter allows before
\* it raises RecursionError
RecursionLimit == 4

None == "None"
\* Dependant.response_param_name is never assigned by Dependant.__init__
Unset == "<unset>"

EmptyDict == [a \in {} |-> None]

DictUpdate(d, e) == [a \in DOMAIN d \cup DOMAIN e |-> IF a \in DOMAIN e THEN e[a] ELSE d[a]]

DictGet(d, a) == IF a \in DOMAIN d THEN d[a] ELSE None

Range(s) == {s[i] : i \in DOMAIN s}

RECURSIVE SeqsUpTo(_, _)
SeqsUpTo(S, n) ==
    IF n = 0 THEN {<<>>}
    ELSE LET shorter == SeqsUpTo(S, n - 1)
         IN  shorter \cup {Append(s, x) : s \in {t \in shorter : Len(t) = n - 1}, x \in S}

(***************************************************************************)
(* Names are strings; the two string operations of get_param_field work on *)
(* their characters.  Chars spells the names that reach them, Str is its   *)
(* inverse.                                                                *)
(***************************************************************************)
Chars(s) ==
    CASE s = "x_token"    -> <<"x", "_", "t", "o", "k", "e", "n">>
      [] s = "X_token"    -> <<"X", "_", "t", "o", "k", "e", "n">>
      [] s = "x-token"    -> <<"x", "-", "t", "o", "k", "e", "n">>
      [] s = "X-token"    -> <<"X", "-", "t", "o", "k", "e", "n">>
      [] s = "agent"      -> <<"a", "g", "e", "n", "t">>
      [] s = "Agent"      -> <<"A", "g", "e", "n", "t">>
      [] s = "user-agent" -> <<"u", "s", "e", "r", "-", "a", "g", "e", "n", "t">>
      [] s = "User-agent" -> <<"U", "s", "e", "r", "-", "a", "g", "e", "n", "t">>

Spelled == {"x_token", "X_token", "x-token", "X-token", "agent", "Agent", "user-agent",
            "User-agent"}

Str(cs) == CHOOSE s \in Spelled : Chars(s) = cs

LowerCase == <<"a", "b", "c", "d", "e", "f", "g", "h", "i", "j", "k", "l", "m",
               "n", "o", "p", "q", "r", "s", "t", "u", "v", "w", "x", "y", "z">>
UpperCase == <<"A", "B", "C", "D", "E", "F", "G", "H", "I", "J", "K", "L", "M",
               "N", "O", "P", "Q", "R", "S", "T", "U", "V", "W", "X", "Y", "Z">>

\* c.upper() for one character
Upper(c) ==
    IF \E i \in DOMAIN LowerCase : LowerCase[i] = c
    THEN UpperCase[CHOOSE i \in DOMAIN LowerCase : LowerCase[i] = c]
    ELSE c

\* s.replace("_", "-")
Replace(cs) == [i \in DOMAIN cs |-> IF cs[i] = "_" THEN "-" ELSE cs[i]]

\* getattr(field_info, "convert_underscores", None): no marker sets it
convert_underscores(info) == FALSE

\* the alias is the parameter name, whatever the marker says
get_alias_of_name(name, info_alias, info) ==
    IF info = "Header" THEN Str(<<Upper(Head(Chars(name)))>> \o Tail(Chars(name)))
    ELSE name

\* the alias without the upper case of a header
get_alias_verbatim(name, info_alias, info) ==
    IF info_alias = None /\ convert_underscores(info) THEN Str(Replace(Chars(name)))
    ELSE IF info_alias # None THEN info_alias ELSE name

\* get_param_field, lines 311-317: the alias of the field
get_alias(name, info_alias, info) ==
    LET alias == IF info_alias = None /\ convert_underscores(info)
                 THEN Str(Replace(Chars(name)))
                 ELSE IF info_alias # None THEN info_alias ELSE name
    IN  IF info = "Header" /\ alias # ""
        THEN Str(<<Upper(Head(Chars(alias)))>> \o Tail(Chars(alias)))
        ELSE alias

(***************************************************************************)
(* Fields (pydantic ModelField with its field_info marker).                *)
(*   info_alias  the alias given to the marker, None if none was given     *)
(*   in_    the source of a Param marker, "body" for the Body family       *)
(*   info   the class of field_info                                        *)
(*   shape  "singleton" or "list" (a member of sequence_shapes)            *)
(*   type_  the (inner) type: "int", "str" or the BaseModel "Item"         *)
(*   default  the name of the default object in the heap, None if required *)
(***************************************************************************)
Field(name, alias, in_, info, shape, type_, required, default) ==
    [name |-> name, info_alias |-> alias, alias |-> get_alias(name, alias, info),
     in_ |-> in_, info |-> info, shape |-> shape,
     type_ |-> type_, required |-> required, default |-> default, embed |-> FALSE]

F_id    == Field("id", None, "path", "Path", "singleton", "int", TRUE, None)
\* ids: List[int], without default
F_ids   == Field("ids", None, "path", "Path", "list", "int", TRUE, None)
F_q     == Field("q", None, "query", "Query", "singleton", "str", TRUE, None)
F_lim   == Field("lim", "limit", "query", "Query", "singleton", "int", FALSE, "lim_default")
F_tags  == Field("tags", None, "query", "Query", "list", "str", TRUE, None)
F_token == Field("x_token", None, "header", "Header", "singleton", "str", TRUE, None)
\* X_token: str = Header(...), next to x_token
F_Token == Field("X_token", None, "header", "Header", "singleton", "str", TRUE, None)
\* key: Union[int, str] = Query(...)
F_key   == Field("key", None, "query", "Query", "singleton", "Union", TRUE, None)
F_agent == Field("agent", "user-agent", "header", "Header", "singleton", "str", FALSE,
                 "agent_default")
F_sid   == Field("sid", None, "cookie", "Cookie", "singleton", "str", FALSE, "sid_default")
F_item  == Field("item", None, "body", "Body", "singleton", "Item", TRUE, None)
F_extra == Field("extra", None, "body", "Body", "singleton", "Item", FALSE, "extra_default")
F_names == Field("names", None, "body", "Form", "list", "str", TRUE, None)
\* declared with Body(..., embed=True)
F_patch == [Field("patch", None, "body", "Body", "singleton", "Item", TRUE, None)
               EXCEPT !.embed = TRUE]

DefaultObjects == {"lim_default", "agent_default", "sid_default", "extra_default"}

sequence_shapes == {"list"}
sequence_types == {"list", "set", "tuple"}
ModelTypes == {"Item", "Body_"}

\* params.Form is a params.Body
IsBodyInfo(info) == info \in {"Body", "Form"}
IsFormInfo(info) == info = "Form"

\* an is_scalar_field that accepts every field
is_scalar_field_any(field) == TRUE

\* field.sub_fields of a singleton field: the members of a Union, nothing
\* for the other types
sub_fields(field) ==
    IF field.shape = "singleton" /\ field.type_ = "Union"
    THEN <<[field EXCEPT !.type_ = "int"], [field EXCEPT !.type_ = "str"]>>
    ELSE <<>>

\* the first test of is_scalar_field
singleton_scalar(field) ==
    /\ field.shape = "singleton"
    /\ field.type_ \notin ModelTypes
    /\ field.type_ \notin sequence_types \cup {"dict"}
    /\ field.info # "Body"

\* is_scalar_field(field) for f in field.sub_fields
the_field_itself(field, f) == field

RECURSIVE is_scalar_field_call(_, _)
RECURSIVE all_sub_fields(_, _, _, _)

\* all(is_scalar_field(field) for f in field.sub_fields), from sub-field i
\* on: the generator stops at the first False and lets an exception through
all_sub_fields(field, i, depth, calls) ==
    IF i > Len(sub_fields(field)) THEN [raised |-> FALSE, value |-> TRUE, calls |-> calls]
    ELSE LET r == is_scalar_field_call(the_field_itself(field, sub_fields(field)[i]),
                                       depth + 1)
         IN  IF r.raised \/ ~r.value
             THEN [raised |-> r.raised, value |-> FALSE, calls |-> calls + r.calls]
             ELSE all_sub_fields(field, i + 1, depth, calls + r.calls)

\* a call of is_scalar_field with depth - 1 calls of it on the interpreter's
\* stack: whether it raised RecursionError, the value it returned, and the
\* calls of is_scalar_field made, this one included
is_scalar_field_call(field, depth) ==
    IF depth > RecursionLimit THEN [raised |-> TRUE, value |-> FALSE, calls |-> 1]
    ELSE IF ~singleton_scalar(field) THEN [raised |-> FALSE, value |-> FALSE, calls |-> 1]
    ELSE all_sub_fields(field, 1, depth, 1)

\* is_scalar_field returned True
is_scalar_field(field) ==
    /\ ~is_scalar_field_call(field, 1).raised
    /\ is_scalar_field_call(field, 1).value

(***************************************************************************)
(* The callables of the application and their signatures, in declaration   *)
(* order.  A parameter is a Depends marker, a Response-annotated parameter *)
(* or a field.                                                             *)
(***************************************************************************)
PDepends(name, dependency, use_cache) ==
    [p |-> "depends", name |-> name, dependency |-> dependency, use_cache |-> use_cache]
PResponse(name) == [p |-> "response", name |-> name]
PField(f) == [p |-> "field", name |-> f.name, field |-> f]
\* a parameter without a default: param.default == param.empty
PEmpty(f) == [p |-> "empty", name |-> f.name, field |-> f]

Handlers == {"get_item", "list_items", "search_items", "create_item", "update_item",
             "patch_item", "upload", "bulk_items", "find_item"}
DepCalls == {"auth", "plain", "session", "guarded_session", "audit", "batch"}
GenCalls == {"session", "guarded_session"}
\* generator dependencies whose cleanup is in a finally clause
FinallyCalls == {"guarded_session"}

Signature(call) ==
    CASE call = "get_item"    -> <<PEmpty(F_id), PField(F_sid)>>
      [] call = "list_items"  -> <<PResponse("response"), PField(F_lim),
                                   PDepends("db", "session", TRUE)>>
      [] call = "search_items" -> <<PResponse("response"), PField(F_tags)>>
      [] call = "create_item" -> <<PResponse("response"), PField(F_item), PField(F_token),
                                   PField(F_Token)>>
      [] call = "update_item" -> <<PResponse("response"), PDepends("who", "audit", TRUE),
                                   PField(F_item)>>
      [] call = "patch_item"  -> <<PResponse("response"), PField(F_patch), PField(F_agent)>>
      [] call = "upload"      -> <<PResponse("response"), PField(F_names)>>
      [] call = "bulk_items"  -> <<PResponse("response"), PEmpty(F_ids)>>
      [] call = "find_item"   -> <<PResponse("response"), PField(F_key)>>
      [] call = "batch"       -> <<PResponse("response"), PEmpty(F_ids)>>
      [] call = "auth"        -> <<PResponse("response"), PField(F_q)>>
      [] call = "plain"       -> <<>>
      [] call = "session"     -> <<PResponse("response")>>
      [] call = "guarded_session" -> <<PResponse("response")>>
      [] call = "audit"       -> <<PResponse("response"), PDepends("user", "auth", TRUE),
                                   PField(F_extra)>>

(***************************************************************************)
(* models.Dependant                                                        *)
(***************************************************************************)
Dependant(call, name, use_cache) ==
    [call |-> call, name |-> name, use_cache |-> use_cache,
     path_params |-> <<>>, query_params |-> <<>>, header_params |-> <<>>,
     cookie_params |-> <<>>, body_params |-> <<>>, dependencies |-> <<>>,
     response_param_name |-> Unset]

cache_key(d) == <<d.call>>

add_param_to_fields(field, d) ==
    CASE field.in_ = "path"   -> [d EXCEPT !.path_params = Append(@, field)]
      [] field.in_ = "query"  -> [d EXCEPT !.query_params = Append(@, field)]
      [] field.in_ = "header" -> [d EXCEPT !.header_params = Append(@, field)]
      [] OTHER                -> [d EXCEPT !.cookie_params = Append(@, field)]

RECURSIVE get_dependant(_, _, _)
RECURSIVE AddParams(_, _, _)

\* the loop over the signature of get_dependant, from parameter i on
AddParams(d, params, i) ==
    IF i > Len(params) THEN d
    ELSE LET param == params[i]
             next  == CASE param.p = "depends" ->
                             [d EXCEPT !.dependencies =
                                 Append(@, get_dependant(param.dependency, param.name,
                                                         param.use_cache))]
                        [] param.p = "response" ->
                             [d EXCEPT !.response_param_name = param.name]
                        [] OTHER ->
                             IF IsBodyInfo(param.field.info)
                             THEN [d EXCEPT !.body_params = Append(@, param.field)]
                             ELSE add_param_to_fields(param.field, d)
         IN  AddParams(next, params, i + 1)

get_dependant(call, name, use_cache) ==
    AddParams(Dependant(call, name, use_cache), Signature(call), 1)

\* get_dependant raises: a parameter without default, of this callable or
\* of a callable it depends on, is not a scalar field (AssertionError), or
\* the classification of a parameter's field raises RecursionError
RECURSIVE get_dependant_raises(_)
get_dependant_raises(call) ==
    \E i \in DOMAIN Signature(call) :
        LET param == Signature(call)[i]
        IN  \/ param.p = "depends" /\ get_dependant_raises(param.dependency)
            \/ param.p = "empty" /\ ~is_scalar_field(param.field)
            \/ /\ param.p \in {"empty", "field"}
               /\ is_scalar_field_call(param.field, 1).raised

\* a params.Depends marker given without a parameter
Depends(dependency, use_cache) == [dependency |-> dependency, use_cache |-> use_cache]

get_parameterless_sub_dependant(depends) ==
    get_dependant(depends.dependency, None, depends.use_cache)

(***************************************************************************)
(* get_flat_dependant: the node's own lists followed by the flattened      *)
(* lists of its sub-dependants; `visited` is one list shared by the whole  *)
(* pass.  The result is [flat |-> Dependant, visited |-> list].            *)
(***************************************************************************)
RECURSIVE get_flat_dependant(_, _, _)
RECURSIVE FlatSubs(_, _, _, _, _, _)

\* a merge that puts the sub-dependant's fields in front
extend_front(own, sub) == sub \o own

\* flat_dependant.path_params.extend(flat_sub.path_params)
extend(own, sub) == own \o sub

\* path_params=dependant.path_params.copy(): the list that is extended is
\* a new one, and the list of the node stays as it was
copy_then_extend(own, extended) == own

\* the loop over dependant.dependencies of get_flat_dependant, from child i
\* on; `after` collects the sub-dependants as the calls leave them
FlatSubs(d, skip_repeats, i, flat, visited, after) ==
    IF i > Len(d.dependencies)
    THEN [flat |-> flat, visited |-> visited, after |-> after]
    ELSE LET sub_dependant == d.dependencies[i]
         IN  IF skip_repeats /\ cache_key(sub_dependant) \in Range(visited)
             THEN FlatSubs(d, skip_repeats, i + 1, flat, visited,
                           Append(after, sub_dependant))
             ELSE LET sub == get_flat_dependant(sub_dependant, skip_repeats, visited)
                      merged == [flat EXCEPT
                          !.path_params = extend(@, sub.flat.path_params),
                          !.query_params = extend(@, sub.flat.query_params),
                          !.header_params = extend(@, sub.flat.header_params),
                          !.cookie_params = extend(@, sub.flat.cookie_params),
                          !.body_params = extend(@, sub.flat.body_params)]
                  IN  FlatSubs(d, skip_repeats, i + 1, merged, sub.visited,
                               Append(after, sub.dependant))

\* the result is [flat, visited, dependant]: the flat Dependant, the list
\* `visited` after the call, and the node d as the call leaves it
get_flat_dependant(d, skip_repeats, visited) ==
    LET seen == Append(visited, cache_key(d))
        flat == [Dependant(None, None, d.use_cache) EXCEPT
                    !.path_params = d.path_params,
                    !.query_params = d.query_params,
                    !.header_params = d.header_params,
                    !.cookie_params = d.cookie_params,
                    !.body_params = d.body_params]
    IN  LET r == FlatSubs(d, skip_repeats, 1, flat, seen, <<>>)
        IN  [flat |-> r.flat, visited |-> r.visited,
             dependant |-> [d EXCEPT
                 !.path_params = copy_then_extend(@, r.flat.path_params),
                 !.query_params = copy_then_extend(@, r.flat.query_params),
                 !.header_params = copy_then_extend(@, r.flat.header_params),
                 !.cookie_params = copy_then_extend(@, r.flat.cookie_params),
                 !.body_params = copy_then_extend(@, r.flat.body_params),
                 !.dependencies = r.after]]

(***************************************************************************)
(* get_body_field.  The result is [field |-> the body field or NoField,    *)
(* dependant |-> the tree after the embed flags were forced].              *)
(***************************************************************************)
NoField == [none |-> TRUE]
IsNone(x) == "none" \in DOMAIN x

\* setattr(param.field_info, "embed", True) for the params of the flat list,
\* seen from the tree that holds the same field objects
RECURSIVE ForceEmbed(_, _)
ForceEmbed(d, flat_body) ==
    [d EXCEPT
        !.body_params = [i \in DOMAIN @ |->
            IF @[i] \in Range(flat_body) THEN [@[i] EXCEPT !.embed = TRUE] ELSE @[i]],
        !.dependencies = [i \in DOMAIN @ |-> ForceEmbed(@[i], flat_body)]]

\* BodyModel.__fields__[f.name] = f, in the order of the flat list
BodyModelFields(flat_body) ==
    [n \in {flat_body[i].name : i \in DOMAIN flat_body} |->
        LET last == CHOOSE i \in DOMAIN flat_body :
                        /\ flat_body[i].name = n
                        /\ \A j \in DOMAIN flat_body : flat_body[j].name = n => j <= i
        IN  [flat_body[last] EXCEPT !.embed = TRUE]]

get_body_field(d) ==
    LET flat_body == get_flat_dependant(d, FALSE, <<>>).flat.body_params
        first_param == flat_body[1]
        body_param_names_set == {flat_body[i].name : i \in DOMAIN flat_body}
        required == \E i \in DOMAIN flat_body : flat_body[i].required
        BodyFieldInfo == IF \E i \in DOMAIN flat_body : IsFormInfo(flat_body[i].info)
                         THEN "Form" ELSE "Body"
    IN  IF flat_body = <<>>
        THEN [field |-> NoField, dependant |-> d]
        ELSE IF Cardinality(body_param_names_set) = 1 /\ ~first_param.embed
        THEN [field |-> first_param, dependant |-> d]
        ELSE [field |-> [name |-> "body", alias |-> "body", in_ |-> "body",
                         info |-> BodyFieldInfo, shape |-> "singleton", type_ |-> "Body_",
                         required |-> required, default |-> None, embed |-> FALSE,
                         sub_fields |-> BodyModelFields(flat_body)],
              dependant |-> ForceEmbed(d, flat_body)]

(***************************************************************************)
(* Values.  A raw parameter value is a string ("bad" is the one no field   *)
(* accepts), None when absent.  A body payload is json null, a dict from   *)
(* keys to raw strings, or something without a .get (bytes, a json list).  *)
(***************************************************************************)
PNone == [k |-> "none"]
PDict(d) == [k |-> "dict", d |-> d]
PRaw(s) == [k |-> "raw", s |-> s]

NoneValue == [k |-> "None"]
Fresh == "<fresh>"

\* the object field.default refers to
DefaultOf(field, hp) ==
    IF field.default = None THEN NoneValue
    ELSE [k |-> "object", ref |-> field.default, content |-> hp[field.default]]

\* copy.deepcopy: an equal object that shares nothing with the original
\* a copy that is the object itself
deepcopy_shared(v) == v

deepcopy(v) == IF v.k = "object" THEN [v EXCEPT !.ref = Fresh] ELSE v

ErrorWrapper(exc, loc) == [exc |-> exc, loc |-> loc]

get_missing_field_error(loc) == ErrorWrapper("MissingError", loc)

NoErrors == [k |-> "none"]
OneError(e) == [k |-> "one", e |-> e]
ErrorList(es) == [k |-> "list", es |-> es]

SetToSeq(S) ==
    LET RECURSIVE Build(_)
        Build(T) == IF T = {} THEN <<>>
                    ELSE LET x == CHOOSE y \in T : TRUE IN <<x>> \o Build(T \ {x})
    IN  Build(S)

(***************************************************************************)
(* field.validate(value, values, loc) of the validation library: a typed   *)
(* value and no errors, or one ErrorWrapper, or a list of them.            *)
(***************************************************************************)
validate(field, value, loc) ==
    [v_ |-> [k |-> "typed", by |-> field.name, raw |-> value],
     errors_ |-> IF value = "bad" THEN OneError(ErrorWrapper("ValidationError", loc))
                 ELSE NoErrors]

\* the same for a whole body payload handed to the field
validate_payload(field, payload, loc) ==
    [v_ |-> [k |-> "typed", by |-> field.name, raw |-> payload],
     errors_ |->
        IF field.type_ \in ModelTypes
        THEN IF payload.k # "dict" THEN OneError(ErrorWrapper("ValidationError", loc))
             ELSE LET badkeys == {a \in DOMAIN payload.d : payload.d[a] = "bad"}
                  IN  IF badkeys = {} THEN NoErrors
                      ELSE ErrorList([i \in 1..Cardinality(badkeys) |->
                               ErrorWrapper("ValidationError",
                                            Append(loc, SetToSeq(badkeys)[i]))])
        ELSE IF payload.k = "raw" /\ payload.s # "bad" THEN NoErrors
             ELSE OneError(ErrorWrapper("ValidationError", loc))]

is_scalar_sequence_field(field) ==
    \/ field.shape \in sequence_shapes /\ field.type_ \notin ModelTypes
    \/ field.type_ \in sequence_types

(***************************************************************************)
(* request_params_to_args.  received_params is a plain dict (args.to_dict, *)
(* dict(headers), cookies.to_dict, the path parameters): it has .get and   *)
(* no .getList.  The result is [values, errors, raised].                   *)
(***************************************************************************)
RECURSIVE ParamsLoop(_, _, _, _, _, _, _)
ParamsLoop(required_params, received_params, get_list, hp, i, values, errors) ==
    IF i > Len(required_params)
    THEN [values |-> values, errors |-> errors, raised |-> None]
    ELSE
    LET field == required_params[i]
        loc == <<field.in_, field.alias>>
    IN  IF is_scalar_sequence_field(field) /\ get_list
        THEN \* received_params.getList: 'dict' object has no attribute 'getList'
             [values |-> values, errors |-> errors, raised |-> "AttributeError"]
        ELSE
        LET value == DictGet(received_params, field.alias)
        IN  IF value = None
            THEN IF field.required
                 THEN ParamsLoop(required_params, received_params, get_list, hp, i + 1,
                          values,
                          Append(errors, ErrorWrapper("MissingError", loc)))
                 ELSE ParamsLoop(required_params, received_params, get_list, hp, i + 1,
                          DictUpdate(values, [n \in {field.name} |->
                                                 deepcopy(DefaultOf(field, hp))]),
                          errors)
            ELSE
            LET r == validate(field, value, loc)
            IN  CASE r.errors_.k = "one" ->
                        ParamsLoop(required_params, received_params, get_list, hp, i + 1,
                                   values, Append(errors, r.errors_.e))
                  [] r.errors_.k = "list" ->
                        ParamsLoop(required_params, received_params, get_list, hp, i + 1,
                                   values, errors \o r.errors_.es)
                  [] OTHER ->
                        ParamsLoop(required_params, received_params, get_list, hp, i + 1,
                                   DictUpdate(values, [n \in {field.name} |-> r.v_]),
                                   errors)

request_params_to_args(required_params, received_params, get_list, hp) ==
    ParamsLoop(required_params, received_params, get_list, hp, 1, EmptyDict, <<>>)

(***************************************************************************)
(* request_body_to_args.  received_body is the wrapper's `body`: a payload *)
(* (PNone, PDict, PRaw); none of them has a .getlist.  field_info stays    *)
(* the marker of the first parameter for the whole loop.  The result is    *)
(* [values, errors, raised].                                               *)
(***************************************************************************)
RECURSIVE BodyLoop(_, _, _, _, _, _, _)
BodyLoop(required_params, received_body, get_list, hp, i, values, errors) ==
    IF i > Len(required_params)
    THEN [values |-> values, errors |-> errors, raised |-> None]
    ELSE
    LET field_info == required_params[1].info
        embed == required_params[1].embed
        field_alias_omitted == Len(required_params) = 1 /\ ~embed
        field == required_params[i]
        loc == IF field_alias_omitted THEN <<"body">> ELSE <<"body", field.alias>>
        \* received_body = {field.alias: received_body} is never None
        is_none == ~field_alias_omitted /\ received_body.k = "none"
        multi == (field.shape \in sequence_shapes \/ field.type_ \in sequence_types)
                     /\ get_list
        missing == IF field.required
                   THEN BodyLoop(required_params, received_body, get_list, hp, i + 1,
                                 values, Append(errors, get_missing_field_error(loc)))
                   ELSE BodyLoop(required_params, received_body, get_list, hp, i + 1,
                                 DictUpdate(values, [n \in {field.name} |->
                                                        deepcopy(DefaultOf(field, hp))]),
                                 errors)
        after(r) == CASE r.errors_.k = "one" ->
                            BodyLoop(required_params, received_body, get_list, hp, i + 1,
                                     values, Append(errors, r.errors_.e))
                      [] r.errors_.k = "list" ->
                            BodyLoop(required_params, received_body, get_list, hp, i + 1,
                                     values, errors \o r.errors_.es)
                      [] OTHER ->
                            BodyLoop(required_params, received_body, get_list, hp, i + 1,
                                     DictUpdate(values, [n \in {field.name} |-> r.v_]),
                                     errors)
    IN  IF ~is_none /\ multi
        THEN \* received_body.getlist: neither a dict nor bytes has it
             [values |-> values, errors |-> errors, raised |-> "AttributeError"]
        ELSE IF is_none THEN missing
        ELSE IF field_alias_omitted
        THEN \* {field.alias: received_body}.get(field.alias)
             IF received_body.k = "none" THEN missing
             ELSE after(validate_payload(field, received_body, loc))
        ELSE IF received_body.k # "dict"
        THEN \* received_body.get raises AttributeError, which is caught
             BodyLoop(required_params, received_body, get_list, hp, i + 1,
                      values, Append(errors, get_missing_field_error(loc)))
        ELSE LET value == DictGet(received_body.d, field.alias)
             IN  IF \/ value = None
                    \/ IsFormInfo(field_info) /\ value = ""
                    \/ IsFormInfo(field_info) /\ field.shape \in sequence_shapes
                           /\ value = ""
                 THEN missing
                 ELSE after(validate(field, value, loc))

request_body_to_args(required_params, received_body, get_list, hp) ==
    IF required_params = <<>>
    THEN [values |-> EmptyDict, errors |-> <<>>, raised |-> None]
    ELSE BodyLoop(required_params, received_body, get_list, hp, 1, EmptyDict, <<>>)

(***************************************************************************)
(* solve_dependencies.                                                     *)
(*   ctx  what is the same for the whole walk: the request, the parsed     *)
(*        body, is_body_form and the heap of default objects               *)
(*   w    what the walk changes besides its results: the ExitStack, the    *)
(*        number of invocations made, the exception being raised, the log  *)
(* The result is [values, errors, dependency_cache, w].                    *)
(***************************************************************************)
Event(ev, site, call, value, errors, values) ==
    [ev |-> ev, site |-> site, call |-> call, value |-> value, errors |-> errors,
     values |-> values]

is_gen_callable(call) == call \in GenCalls

ResponseObject == [k |-> "response"]

\* the exception a failing dependency raises
Raises(call) == IF call = "audit" THEN "RuntimeError" ELSE "HTTPException"

\* what the handler does: it returns (None) or raises
HandlerOutcomes == {None, "HandlerError", "HTTPException"}

\* the response attribute of an exception when it is raised:
\* HTTPException.__init__ sets it to None, other exceptions have none
raised_response(exc) == IF exc = "HTTPException" THEN None ELSE Unset

\* a wrapper without the except clause
except_nothing(exc) == raised_response(exc)

\* except HTTPException as e: e.response = response; raise e
except_HTTPException(exc) == IF exc = "HTTPException" THEN "response" ELSE raised_response(exc)

Raise(w, exc, site, call) ==
    [w EXCEPT !.raised = exc,
              !.log = Append(@, Event("raise", site, call, [k |-> exc], <<>>, EmptyDict))]

\* call(**sub_values) of a dependency that is not a generator
Invoke(call, site, w, ctx) ==
    IF call \in ctx.req.fails
    THEN [solved |-> NoneValue, w |-> Raise(w, Raises(call), site, call)]
    ELSE LET v == [k |-> "result", of |-> call, serial |-> w.calls + 1,
              request |-> w.request]
         IN  [solved |-> v,
              w |-> [w EXCEPT !.calls = @ + 1,
                              !.log = Append(@, Event("call", site, call, v, <<>>, EmptyDict))]]

\* stack.enter_context(contextmanager(call)(**sub_values)): the generator runs
\* to its yield, and its exit is pushed on the ExitStack
solve_generator(call, site, w) ==
    LET v == [k |-> "result", of |-> call, serial |-> w.calls + 1,
              request |-> w.request]
    IN  [solved |-> v,
         w |-> [w EXCEPT !.calls = @ + 1,
                         !.stack = Append(@, [call |-> call, site |-> site, value |-> v]),
                         !.log = Append(@, Event("enter", site, call, v, <<>>, EmptyDict))]]

RECURSIVE solve_dependencies(_, _, _, _, _)
\* a loop that goes on to the callable whatever the sub-dependant reported
sub_errors_ignored(sub_errors) == FALSE

\* if sub_errors: errors.extend(sub_errors); continue
sub_errors_found(sub_errors) == sub_errors # <<>>

\* a store that overwrites what the key holds
store_always(dependency_cache, key, solved) ==
    DictUpdate(dependency_cache, [k \in {key} |-> solved])

\* if sub_dependant.cache_key not in dependency_cache:
\*     dependency_cache[sub_dependant.cache_key] = solved
store(dependency_cache, key, solved) ==
    IF key \notin DOMAIN dependency_cache
    THEN DictUpdate(dependency_cache, [k \in {key} |-> solved])
    ELSE dependency_cache

\* a loop that takes the sub-dependants last first
ChildOrderReversed(d) == [i \in DOMAIN d.dependencies |-> Len(d.dependencies) + 1 - i]

\* for sub_dependant in dependant.dependencies: the positions in the order
\* the loop takes them
ChildOrder(d) == [i \in DOMAIN d.dependencies |-> i]

RECURSIVE SolveSubs(_, _, _, _, _, _, _, _)

\* the loop over dependant.dependencies of solve_dependencies, from child i on
SolveSubs(d, site, i, values, errors, dependency_cache, w, ctx) ==
    IF i > Len(d.dependencies)
    THEN [values |-> values, errors |-> errors, dependency_cache |-> dependency_cache,
          w |-> w]
    ELSE
    LET sub_dependant == d.dependencies[ChildOrder(d)[i]]
        call == sub_dependant.call
        sub_site == Append(site, ChildOrder(d)[i])
        solved_result_ == solve_dependencies(sub_dependant, sub_site, dependency_cache, w, ctx)
        \* an empty dependency_cache is replaced by a new dict in the callee,
        \* a non-empty one is the very dict the callee filled
        after_call == IF dependency_cache = EmptyDict THEN dependency_cache
                      ELSE solved_result_.dependency_cache
        updated == DictUpdate(after_call, solved_result_.dependency_cache)
        key == cache_key(sub_dependant)
    IN  IF solved_result_.w.raised # None
        THEN [values |-> values, errors |-> errors, dependency_cache |-> updated,
              w |-> solved_result_.w]
        ELSE IF sub_errors_found(solved_result_.errors)
        THEN SolveSubs(d, site, i + 1, values, errors \o solved_result_.errors, updated,
                       solved_result_.w, ctx)
        ELSE
        LET got == IF sub_dependant.use_cache /\ key \in DOMAIN updated
                   THEN [solved |-> updated[key],
                         w |-> [solved_result_.w EXCEPT !.log =
                                   Append(@, Event("cache", sub_site, call, updated[key],
                                                   <<>>, EmptyDict))]]
                   ELSE IF is_gen_callable(call)
                   THEN solve_generator(call, sub_site, solved_result_.w)
                   ELSE Invoke(call, sub_site, solved_result_.w, ctx)
            named == IF sub_dependant.name # None
                     THEN DictUpdate(values, [n \in {sub_dependant.name} |-> got.solved])
                     ELSE values
            stored == store(updated, key, got.solved)
        IN  IF got.w.raised # None
            THEN [values |-> values, errors |-> errors, dependency_cache |-> updated,
                  w |-> got.w]
            ELSE SolveSubs(d, site, i + 1, named, errors, stored, got.w, ctx)

solve_dependencies(d, site, cache_in, w, ctx) ==
    LET dependency_cache == IF cache_in = EmptyDict THEN EmptyDict ELSE cache_in
        subs == SolveSubs(d, site, 1, EmptyDict, <<>>, dependency_cache, w, ctx)
        path == request_params_to_args(d.path_params, ctx.req.path_params, FALSE, ctx.heap)
        query == request_params_to_args(d.query_params, ctx.req.args, TRUE, ctx.heap)
        header == request_params_to_args(d.header_params, ctx.req.headers, TRUE, ctx.heap)
        cookie == request_params_to_args(d.cookie_params, ctx.req.cookies, FALSE, ctx.heap)
        params_raised == CASE path.raised # None -> path.raised
                           [] query.raised # None -> query.raised
                           [] header.raised # None -> header.raised
                           [] OTHER -> cookie.raised
        values1 == DictUpdate(DictUpdate(DictUpdate(DictUpdate(subs.values,
                       path.values), query.values), header.values), cookie.values)
        errors1 == subs.errors \o query.errors \o header.errors \o cookie.errors
                       \o path.errors
        bodyr == IF d.body_params # <<>>
                 THEN request_body_to_args(d.body_params, ctx.body, ctx.is_body_form,
                                           ctx.heap)
                 ELSE [values |-> EmptyDict, errors |-> <<>>, raised |-> None]
        values2 == DictUpdate(values1, bodyr.values)
        errors2 == errors1 \o bodyr.errors
        values3 == IF d.response_param_name # None
                   THEN DictUpdate(values2, [n \in {d.response_param_name} |-> ResponseObject])
                   ELSE values2
        out(vs, es, w1) == [values |-> vs, errors |-> es,
                            dependency_cache |-> subs.dependency_cache, w |-> w1]
    IN  IF subs.w.raised # None THEN out(subs.values, subs.errors, subs.w)
        ELSE IF params_raised # None
        THEN out(subs.values, subs.errors, Raise(subs.w, params_raised, site, d.call))
        ELSE IF bodyr.raised # None
        THEN out(values1, errors1, Raise(subs.w, bodyr.raised, site, d.call))
        ELSE IF d.response_param_name = Unset
        THEN \* 'Dependant' object has no attribute 'response_param_name'
             out(values2, errors2, Raise(subs.w, "AttributeError", site, d.call))
        ELSE out(values3, errors2,
                 [subs.w EXCEPT !.log =
                     Append(@, Event("return", site, d.call, NoneValue, errors2, values3))])

(***************************************************************************)
(* Requests.  Only what the registered tree reads varies: one raw value    *)
(* or none for every alias of its fields, the body in its encodings, and   *)
(* whether a dependency callable raises when it is invoked (auth, which is *)
(* invoked only when its parameter q validates).                           *)
(***************************************************************************)
NoData == [k |-> "empty"]
Malformed == [k |-> "malformed"]
Json(payload) == [k |-> "json", payload |-> payload]

\* the dicts over the aliases of `fields`, every alias absent or one of its values
RawChoices(field) ==
    IF field.in_ = "body" /\ IsFormInfo(field.info) THEN {None, "v", ""}
    ELSE IF field.required /\ field.in_ \in {"path", "query", "body"} THEN {None, "v", "bad"}
    ELSE {None, "v"}

Dicts(fields) ==
    LET aliases == {fields[i].alias : i \in DOMAIN fields}
        choices(a) == UNION {RawChoices(fields[i]) : i \in {j \in DOMAIN fields :
                                                               fields[j].alias = a}}
    IN  {[a \in {b \in aliases : c[b] # None} |-> c[a]] :
            c \in {f \in [aliases -> {None, "v", "bad", ""}] :
                      \A a \in aliases : f[a] \in choices(a)}}

\* the header dicts: a header may come under the alias of its field or
\* under the name the declaration spells
HeaderDicts(fields) ==
    LET keys == {fields[i].alias : i \in DOMAIN fields}
                \cup {IF fields[i].info_alias # None THEN fields[i].info_alias
                      ELSE fields[i].name : i \in DOMAIN fields}
    IN  {[a \in K |-> "v"] : K \in SUBSET keys}

RECURSIVE CallsOf(_)
CallsOf(d) == {d.call} \cup UNION {CallsOf(d.dependencies[i]) : i \in DOMAIN d.dependencies}

MayFail == {"auth", "audit"}

Requests(d, bf) ==
    LET flat == get_flat_dependant(d, FALSE, <<>>).flat
        bodies == IF IsNone(bf) THEN {[form |-> EmptyDict, data |-> NoData, content_type |-> None]}
                  ELSE IF IsFormInfo(bf.info)
                  THEN {[form |-> f, data |-> NoData, content_type |-> None] :
                           f \in Dicts(flat.body_params)}
                  ELSE {[form |-> EmptyDict, data |-> NoData, content_type |-> None],
                        [form |-> EmptyDict, data |-> Malformed, content_type |-> None],
                        [form |-> EmptyDict, data |-> Json(PDict(EmptyDict)),
                         content_type |-> "text/plain"]}
                       \cup {[form |-> EmptyDict, data |-> Json(PDict(b)),
                              content_type |-> "application/json"] :
                                b \in Dicts(flat.body_params)}
        all == {[path_params |-> p, args |-> q, headers |-> h, cookies |-> c,
                 form |-> b.form, data |-> b.data, content_type |-> b.content_type,
                 fails |-> x] :
                   p \in Dicts(flat.path_params), q \in Dicts(flat.query_params),
                   h \in HeaderDicts(flat.header_params), c \in Dicts(flat.cookie_params),
                   b \in bodies, x \in {{}} \cup {{f} : f \in MayFail \cap CallsOf(d)}}
    IN  {r \in all : r.fails = {} \/ DictGet(r.args, "q") = "v"}

(***************************************************************************)
(* FlaskDependant.__init__ and FlaskDependant.__call__                     *)
(***************************************************************************)
DepSpecs ==
    {Depends(c, TRUE) : c \in DepCalls} \cup {Depends(c, FALSE) : c \in {"auth", "session"}}

\* the dependencies lists FlaskDependant(...) is constructed with
AppDependencies == {<<>>, <<Depends("auth", TRUE)>>, <<Depends("session", TRUE)>>,
                    <<Depends("audit", TRUE)>>}

\* FlaskDependant.__init__: a dict of exception handlers is an object
NoArgument == [none |-> TRUE]

\* d[key] = default, whatever d holds
setdefault_overwrites(d, key, default) ==
    [k \in DOMAIN d \cup {key} |-> IF k = key THEN default ELSE d[k]]

\* dict.setdefault(key, default)
setdefault(d, key, default) ==
    IF key \in DOMAIN d THEN d
    ELSE [k \in DOMAIN d \cup {key} |-> IF k = key THEN default ELSE d[k]]

\* FlaskDependant.__init__(exception_handlers, dependencies): the instance
\* and the dict objects after the call.  exception_handlers is no argument
\* or the identity of a dict; `exception_handlers or {}` keeps a non-empty
\* dict itself and replaces anything else by a new dict
FlaskDependant(dicts, exception_handlers, dependencies) ==
    LET fresh == IsNone(exception_handlers) \/ DOMAIN dicts[exception_handlers.ref] = {}
        all == IF fresh THEN Append(dicts, EmptyDict) ELSE dicts
        id == IF fresh THEN Len(all) ELSE exception_handlers.ref
        handlers == setdefault(setdefault(all[id], "HTTPException", "http_exception_handler"),
                               "RequestValidationError",
                               "request_validation_exception_handler")
    IN  [dicts |-> [all EXCEPT ![id] = handlers],
         instance |-> [exception_handlers |-> id, dependencies |-> dependencies]]

NoRequest == [none |-> TRUE]
NoResult == [none |-> TRUE]

\* the threads that serve requests at the same time
Threads == {1, 2}

\* the locals of a wrapper call that has not started
NotStarted ==
    [pc |-> "idle", req |-> NoRequest, body |-> PNone, solved_result |-> NoResult,
     dependency_cache |-> EmptyDict, stack |-> <<>>, pending |-> None,
     exc_response |-> Unset, log |-> <<>>]

Init ==
    /\ app_dependencies \in AppDependencies
    /\ call_dependencies = <<>>
    /\ decorated = None
    /\ dependant = [none |-> TRUE]
    /\ body_field = NoField
    /\ heap = [o \in DefaultObjects |-> "original"]
    /\ pc = "unregistered"
    /\ req = NoRequest
    /\ body = PNone
    /\ solved_result = NoResult
    /\ stack = <<>>
    /\ pending = None
    /\ exc_response = Unset
    /\ log = <<>>
    /\ threads = [t \in Threads |-> NotStarted]
    /\ \E r \in {FlaskDependant(<<>>, NoArgument, app_dependencies)} :
           /\ handler_dicts = r.dicts
           /\ apps = <<r.instance>>

\* a list read in the default order, first element first
Forward(l) == l

\* l[::-1]
Reversed(l) == [i \in 1..Len(l) |-> l[Len(l) + 1 - i]]

\* for depends in order: dependencies.insert(0, get_parameterless_sub_dependant(depends))
RECURSIVE InsertFront(_, _, _)
InsertFront(dependencies, order, i) ==
    IF i > Len(order) THEN dependencies
    ELSE InsertFront(<<get_parameterless_sub_dependant(order[i])>> \o dependencies,
                     order, i + 1)

\* FlaskDependant.__call__(dependencies)(call)
Register(call, dependencies) ==
    /\ pc = "unregistered"
    /\ decorated' = call
    /\ call_dependencies' = dependencies
    /\ LET own == get_dependant(call, None, TRUE)
           _dependencies == app_dependencies \o dependencies
           spliced == [own EXCEPT !.dependencies =
                          InsertFront(@, Reversed(_dependencies), 1)]
           built == get_body_field(spliced)
       IN  IF \/ get_dependant_raises(call)
              \/ \E i \in DOMAIN _dependencies :
                     get_dependant_raises(_dependencies[i].dependency)
           THEN \* the AssertionError leaves the decorator: no view function
                /\ pc' = "failed"
                /\ UNCHANGED <<dependant, body_field>>
           ELSE /\ dependant' = built.dependant
                /\ body_field' = built.field
                /\ pc' = "idle"
    /\ UNCHANGED <<handler_dicts, apps, threads, app_dependencies, heap, req, body, solved_result, stack, pending,
                   exc_response, log>>

(***************************************************************************)
(* get_route_handler.wrapper                                               *)
(***************************************************************************)
is_body_form == ~IsNone(body_field) /\ IsFormInfo(body_field.info)

\* a wrapper that takes a payload json.loads rejects for no payload
ParseBodyLenient(r) ==
    IF IsNone(body_field) \/ ~is_body_form
    THEN [body |-> PNone, raised |-> None, errors |-> <<>>]
    ELSE [body |-> PDict(r.form), raised |-> None, errors |-> <<>>]

\* lines 101-130: the body of the request; [body, raised, errors]
ParseBody(r) ==
    LET loads == r.content_type = None \/ r.content_type = "application/json"
    IN  IF IsNone(body_field) THEN [body |-> PNone, raised |-> None, errors |-> <<>>]
        ELSE IF is_body_form
        THEN [body |-> PDict(r.form), raised |-> None, errors |-> <<>>]
        ELSE IF r.data.k = "empty"
        THEN [body |-> PNone, raised |-> None, errors |-> <<>>]
        ELSE IF loads /\ r.data.k = "malformed"
        THEN [body |-> PNone, raised |-> "RequestValidationError",
              errors |-> <<ErrorWrapper("JSONDecodeError", <<"body", "pos">>)>>]
        ELSE IF loads THEN [body |-> r.data.payload, raised |-> None, errors |-> <<>>]
        ELSE [body |-> PRaw("v"), raised |-> None, errors |-> <<>>]

WrapperEvent(ev, errors) == Event(ev, <<>>, dependant.call, NoneValue, errors, EmptyDict)

Receive(r) ==
    /\ pc = "idle"
    /\ req' = r
    /\ LET parsed == ParseBody(r)
       IN  /\ body' = parsed.body
           /\ pending' = parsed.raised
           /\ exc_response' = IF parsed.raised # None THEN "response" ELSE Unset
           /\ IF parsed.raised # None
              THEN /\ pc' = "done"
                   /\ log' = <<WrapperEvent("invalid", parsed.errors)>>
              ELSE /\ pc' = "solve"
                   /\ log' = <<>>
    /\ solved_result' = NoResult
    /\ stack' = <<>>
    /\ UNCHANGED <<handler_dicts, apps, threads, app_dependencies, call_dependencies, decorated, dependant,
                   body_field, heap>>

\* lines 131-148: solve_dependencies inside the ExitStack, and the check of
\* the errors
Solve ==
    /\ pc = "solve"
    /\ \E r \in {solve_dependencies(dependant, <<>>, EmptyDict,
                                    [stack |-> <<>>, calls |-> 0, raised |-> None,
                                     log |-> <<>>, request |-> 0],
                                    [req |-> req, body |-> body,
                                     is_body_form |-> is_body_form, heap |-> heap])} :
           /\ stack' = r.w.stack
           /\ IF r.w.raised # None
              THEN /\ pending' = r.w.raised
                   /\ exc_response' = except_HTTPException(r.w.raised)
                   /\ pc' = "unwind"
                   /\ log' = r.w.log
                   /\ solved_result' = NoResult
              ELSE IF r.errors # <<>>
              THEN /\ pending' = "RequestValidationError"
                   /\ exc_response' = "response"
                   /\ pc' = "unwind"
                   /\ log' = Append(r.w.log, WrapperEvent("invalid", r.errors))
                   /\ solved_result' = [values |-> r.values, errors |-> r.errors,
                                        dependency_cache |-> r.dependency_cache]
              ELSE /\ pending' = None
                   /\ exc_response' = Unset
                   /\ pc' = "call"
                   /\ log' = r.w.log
                   /\ solved_result' = [values |-> r.values, errors |-> r.errors,
                                        dependency_cache |-> r.dependency_cache]
    /\ UNCHANGED <<handler_dicts, apps, threads, app_dependencies, call_dependencies, decorated, dependant,
                   body_field, heap, req, body>>

\* the objects of the heap a callable can reach through its arguments
Reachable(values) ==
    {values[n].ref : n \in {m \in DOMAIN values : values[m].k = "object"}} \ {Fresh}

\* line 149: res = dependant.call(**values); the handler changes every
\* mutable argument it was given, and returns or raises
CallHandler(raises) ==
    /\ pc = "call"
    /\ heap' = [o \in DOMAIN heap |->
                   IF o \in Reachable(solved_result.values) THEN "mutated" ELSE heap[o]]
    /\ log' = Append(log, WrapperEvent(IF raises # None THEN "handler_raised"
                                       ELSE "handler_returned", <<>>))
    /\ pending' = raises
    /\ exc_response' = raised_response(raises)
    /\ pc' = "unwind"
    /\ UNCHANGED <<handler_dicts, apps, threads, app_dependencies, call_dependencies, decorated, dependant,
                   body_field, req, body, solved_result, stack>>

\* an ExitStack that unwinds first in, first out
ExitStackPopFifo(st) == [top |-> st[1], rest |-> SubSeq(st, 2, Len(st))]

\* ExitStack.__exit__, one context manager at a time, last entered first.
\* Without an exception the generator is resumed and runs to its end; with
\* one, the exception is thrown into it at the yield, and only a finally
\* clause runs.
ExitStackPop(st) == [top |-> st[Len(st)], rest |-> SubSeq(st, 1, Len(st) - 1)]

ExitOne ==
    /\ pc = "unwind"
    /\ stack # <<>>
    /\ LET popped == ExitStackPop(stack)
           cm == popped.top
           exited == Append(log, Event("exit", cm.site, cm.call, cm.value, <<>>, EmptyDict))
       IN  /\ stack' = popped.rest
           /\ log' = IF pending = None \/ cm.call \in FinallyCalls
                     THEN Append(exited, Event("cleanup", cm.site, cm.call, cm.value, <<>>,
                                               EmptyDict))
                     ELSE exited
    /\ UNCHANGED <<handler_dicts, apps, threads, app_dependencies, call_dependencies, decorated, dependant,
                   body_field, heap, pc, req, body,
                   solved_result, pending, exc_response>>

\* lines 150-151, or the exception leaving the wrapper
Finish ==
    /\ pc = "unwind"
    /\ stack = <<>>
    /\ pc' = "done"
    /\ log' = Append(log, WrapperEvent(IF pending = None THEN "response" ELSE "raised", <<>>))
    /\ UNCHANGED <<handler_dicts, apps, threads, app_dependencies, call_dependencies, decorated, dependant,
                   body_field, heap, req, body,
                   solved_result, stack, pending, exc_response>>

\* the wrapper has returned or raised: its locals are gone, and the view
\* function waits for the next request
Return ==
    /\ pc = "done"
    /\ pc' = "idle"
    /\ req' = NoRequest
    /\ body' = PNone
    /\ solved_result' = NoResult
    /\ pending' = None
    /\ exc_response' = Unset
    /\ log' = <<>>
    /\ UNCHANGED <<handler_dicts, apps, threads, app_dependencies, call_dependencies, decorated, dependant,
                   body_field, heap, stack>>

Next ==
    \/ \E call \in Handlers, dependencies \in SeqsUpTo(DepSpecs, MaxCallDeps) :
           Register(call, dependencies)
    \/ /\ pc = "idle"
       /\ \E r \in Requests(dependant, body_field) : Receive(r)
    \/ Solve
    \/ \E raises \in HandlerOutcomes : CallHandler(raises)
    \/ ExitOne
    \/ Finish
    \/ Return

Spec == Init /\ [][Next]_vars

(***************************************************************************)
(* Concurrent requests: the view function is called by several threads at  *)
(* once.  Each call of the wrapper has its own locals (threads[t]); the    *)
(* Dependant tree, the body field and the default objects are shared.      *)
(***************************************************************************)
\* the per-call dependencies of the handler served concurrently
ConcurrentDependencies == {<<>>, <<Depends("session", FALSE)>>}

\* the dependency caches that exist in the process besides the one of thread t
OtherCaches(t) ==
    LET u == CHOOSE x \in Threads : x # t
    IN  threads[u].dependency_cache

\* a cache that lives outside the call and is shared by the requests
ambient_dependency_cache(others) == others

\* the wrapper passes no dependency_cache: solve_dependencies starts with
\* a dict of its own
wrapper_dependency_cache(others) == EmptyDict

Locals(t, l) ==
    /\ threads' = [threads EXCEPT ![t] = l]
    /\ UNCHANGED <<app_dependencies, call_dependencies, decorated, dependant, body_field, pc, req,
                   body, solved_result, stack, pending, exc_response, log, handler_dicts, apps>>

ThreadReceive(t, r) ==
    /\ pc = "idle"
    /\ threads[t].pc = "idle"
    /\ LET parsed == ParseBody(r)
       IN  Locals(t, [threads[t] EXCEPT
               !.req = r,
               !.body = parsed.body,
               !.pending = parsed.raised,
               !.exc_response = IF parsed.raised # None THEN "response" ELSE Unset,
               !.pc = IF parsed.raised # None THEN "done" ELSE "solve",
               !.log = IF parsed.raised # None
                       THEN <<WrapperEvent("invalid", parsed.errors)>> ELSE <<>>])
    /\ UNCHANGED heap

ThreadSolve(t) ==
    /\ threads[t].pc = "solve"
    /\ \E l \in {threads[t]} :
       \E r \in {solve_dependencies(dependant, <<>>,
                                    wrapper_dependency_cache(OtherCaches(t)),
                                    [stack |-> <<>>, calls |-> 0, raised |-> None,
                                     log |-> <<>>, request |-> t],
                                    [req |-> l.req, body |-> l.body,
                                     is_body_form |-> is_body_form, heap |-> heap])} :
           Locals(t, [l EXCEPT
               !.stack = r.w.stack,
               !.dependency_cache = r.dependency_cache,
               !.pending = IF r.w.raised # None THEN r.w.raised
                           ELSE IF r.errors # <<>> THEN "RequestValidationError"
                           ELSE None,
               !.exc_response = IF r.w.raised # None THEN except_HTTPException(r.w.raised)
                                ELSE IF r.errors # <<>> THEN "response"
                                ELSE Unset,
               !.pc = IF r.w.raised # None \/ r.errors # <<>> THEN "unwind" ELSE "call",
               !.log = IF r.w.raised = None /\ r.errors # <<>>
                       THEN Append(r.w.log, WrapperEvent("invalid", r.errors))
                       ELSE r.w.log,
               !.solved_result = IF r.w.raised # None THEN NoResult
                                 ELSE [values |-> r.values, errors |-> r.errors]])
    /\ UNCHANGED heap

ThreadCallHandler(t, raises) ==
    /\ threads[t].pc = "call"
    /\ heap' = [o \in DOMAIN heap |->
                   IF o \in Reachable(threads[t].solved_result.values)
                   THEN "mutated" ELSE heap[o]]
    /\ Locals(t, [threads[t] EXCEPT
           !.log = Append(@, WrapperEvent(IF raises # None THEN "handler_raised"
                                          ELSE "handler_returned", <<>>)),
           !.pending = raises,
           !.exc_response = raised_response(raises),
           !.pc = "unwind"])

ThreadExitOne(t) ==
    /\ threads[t].pc = "unwind"
    /\ threads[t].stack # <<>>
    /\ LET l == threads[t]
           popped == ExitStackPop(l.stack)
           cm == popped.top
           exited == Append(l.log,
                            Event("exit", cm.site, cm.call, cm.value, <<>>, EmptyDict))
       IN  Locals(t, [l EXCEPT
               !.stack = popped.rest,
               !.log = IF l.pending = None \/ cm.call \in FinallyCalls
                       THEN Append(exited, Event("cleanup", cm.site, cm.call, cm.value,
                                                 <<>>, EmptyDict))
                       ELSE exited])
    /\ UNCHANGED heap

ThreadFinish(t) ==
    /\ threads[t].pc = "unwind"
    /\ threads[t].stack = <<>>
    /\ Locals(t, [threads[t] EXCEPT
           !.pc = "done",
           !.log = Append(@, WrapperEvent(IF threads[t].pending = None THEN "response"
                                          ELSE "raised", <<>>))])
    /\ UNCHANGED heap

ConcurrentNext ==
    \/ \E dependencies \in ConcurrentDependencies : Register("list_items", dependencies)
    \/ /\ pc = "idle"
       /\ \E t \in Threads : \E r \in Requests(dependant, body_field) : ThreadReceive(t, r)
    \/ \E t \in Threads : ThreadSolve(t)
    \/ \E t \in Threads : \E raises \in HandlerOutcomes : ThreadCallHandler(t, raises)
    \/ \E t \in Threads : ThreadExitOne(t)
    \/ \E t \in Threads : ThreadFinish(t)

\* the application served concurrently is built without instance-level
\* dependencies, or with the cache-enabled auth
ConcurrentInit == Init /\ app_dependencies \in {<<>>, <<Depends("auth", TRUE)>>}

ConcurrentSpec == ConcurrentInit /\ [][ConcurrentNext]_vars

(***************************************************************************)
(* FlaskDependant.__init__ and fork_sub_dependant.  A dict of exception    *)
(* handlers is an object: handler_dicts[id] is the mapping of the dict     *)
(* with identity id, and an instance holds the identity of its dict.       *)
(***************************************************************************)
\* for exception in self.exception_handlers:
\*     if exception not in exception_handlers: exception_handlers[exception] = ...
inherit(exception_handlers, own) ==
    [k \in DOMAIN exception_handlers \cup DOMAIN own |->
        IF k \in DOMAIN exception_handlers THEN exception_handlers[k] ELSE own[k]]

\* self.fork_sub_dependant(exception_handlers, dependencies): a non-empty
\* dict is copied and completed from the parent's, anything else gives the
\* parent's own dict to the constructor
fork_sub_dependant(dicts, self, exception_handlers, dependencies) ==
    LET given == ~IsNone(exception_handlers) /\ DOMAIN exception_handlers.dict # {}
        all == IF given
               THEN Append(dicts, inherit(exception_handlers.dict, dicts[self.exception_handlers]))
               ELSE dicts
        arg == IF given THEN [ref |-> Len(all)] ELSE [ref |-> self.exception_handlers]
    IN  FlaskDependant(all, arg, self.dependencies \o dependencies)

\* the dicts of handlers a fork is given (besides none at all)
UserHandlers ==
    {EmptyDict,
     [k \in {"KeyError"} |-> "on_key_error"],
     [k \in {"HTTPException"} |-> "on_http_error"],
     [k \in {"KeyError", "RequestValidationError"} |->
         IF k = "KeyError" THEN "on_missing_key" ELSE "on_invalid"]}

HandlerArguments == {NoArgument} \cup {[dict |-> h] : h \in UserHandlers}

\* the dependencies a fork is given: None and [] both read as []
ForkDependencies == {<<>>, <<Depends("session", TRUE)>>}

Fork(p, exception_handlers, dependencies) ==
    /\ Len(apps) < MaxApps
    /\ \E r \in {fork_sub_dependant(handler_dicts, apps[p], exception_handlers, dependencies)} :
           /\ handler_dicts' = r.dicts
           /\ apps' = Append(apps, r.instance)
    /\ UNCHANGED <<app_dependencies, call_dependencies, decorated, dependant, body_field, heap,
                   pc, req, body, solved_result, stack, pending, exc_response, log, threads>>

ForkNext ==
    \E p \in DOMAIN apps, exception_handlers \in HandlerArguments,
       dependencies \in ForkDependencies : Fork(p, exception_handlers, dependencies)

ForkSpec == Init /\ [][ForkNext]_vars

(***************************************************************************)
(* What the properties below speak about.                                  *)
(***************************************************************************)
\* the sub-dependants of the tree below d, each with the path that leads to it
RECURSIVE SitesFrom(_, _)
SitesFrom(d, site) ==
    UNION {{[site |-> Append(site, i), node |-> d.dependencies[i]]}
               \cup SitesFrom(d.dependencies[i], Append(site, i)) :
           i \in DOMAIN d.dependencies}

SitesOf(call) == {s \in SitesFrom(dependant, <<>>) : s.node.call = call}

\* the request binds every field of the subtree of d: no error, no exception
RECURSIVE BindsCleanly(_)
BindsCleanly(d) ==
    /\ \A r \in {request_params_to_args(d.path_params, req.path_params, FALSE, heap),
                 request_params_to_args(d.query_params, req.args, TRUE, heap),
                 request_params_to_args(d.header_params, req.headers, TRUE, heap),
                 request_params_to_args(d.cookie_params, req.cookies, FALSE, heap),
                 request_body_to_args(d.body_params, body, is_body_form, heap)} :
           r.errors = <<>> /\ r.raised = None
    /\ \A i \in DOMAIN d.dependencies : BindsCleanly(d.dependencies[i])

\* solve_dependencies has been called for the current request
Walked == pc \in {"call", "unwind"} \/ (pc = "done" /\ Len(log) > 1)

Events(kinds) == {i \in DOMAIN log : log[i].ev \in kinds}

\* C1: a callable that is a cache-enabled sub-dependency at every one of its
\* N > 1 sites, and whose subtree binds without errors, is invoked exactly
\* once by solve_dependencies, and every site receives the same value.
C1_InvokedOnceSameValue ==
    (Walked /\ req.fails = {}) =>
        \A k \in DepCalls :
            (/\ Cardinality(SitesOf(k)) > 1
             /\ \A s \in SitesOf(k) : s.node.use_cache /\ BindsCleanly(s.node))
            => /\ Cardinality({i \in Events({"call", "enter"}) : log[i].call = k}) = 1
               /\ \E j \in Events({"call", "enter"}) :
                     \A s \in SitesOf(k) :
                         \E i \in Events({"call", "enter", "cache"}) :
                             log[i].site = s.site /\ log[i].value = log[j].value

\* C2: every scoped dependency that was entered is exited at most once, and
\* exactly once when the wrapper is done; the exits happen in the reverse
\* order of the entries; every exit comes after the handler returned or
\* raised, or after its invocation was suppressed by an exception, and
\* nothing is entered or invoked after an exit.
C2_ExitedOnceInReverseOrder ==
    LET enters == Events({"enter"})
        exits == Events({"exit"})
        enter_of(j) == CHOOSE i \in enters : log[i].value = log[j].value
    IN  /\ \A j \in exits : \E i \in enters : i < j /\ log[i].value = log[j].value
        /\ \A j1, j2 \in exits : log[j1].value = log[j2].value => j1 = j2
        /\ \A j1, j2 \in exits : j1 < j2 => enter_of(j1) > enter_of(j2)
        /\ \A j \in exits :
              /\ \E i \in Events({"handler_returned", "handler_raised", "invalid", "raise"}) :
                     i < j
              /\ \A i \in Events({"enter", "call", "cache", "handler_returned",
                                  "handler_raised"}) : i < j
        /\ {log[i].value : i \in enters} \ {log[j].value : j \in exits}
               = {stack[n].value : n \in DOMAIN stack}
        /\ pc \in {"done", "idle"} => stack = <<>>

\* two scoped dependencies were entered, the handler returned, both were exited
C2_Witness ==
    /\ pc = "done"
    /\ Cardinality(Events({"exit"})) >= 2
    /\ Events({"handler_returned"}) # {}

\* the root and the sub-dependants of the registered tree
Nodes == {[site |-> <<>>, node |-> dependant]} \cup SitesFrom(dependant, <<>>)

\* the errors the binders give for the fields of d itself, in the order of
\* solve_dependencies
OwnErrors(d) ==
    request_params_to_args(d.query_params, req.args, TRUE, heap).errors
    \o request_params_to_args(d.header_params, req.headers, TRUE, heap).errors
    \o request_params_to_args(d.cookie_params, req.cookies, FALSE, heap).errors
    \o request_params_to_args(d.path_params, req.path_params, FALSE, heap).errors
    \o request_body_to_args(d.body_params, body, is_body_form, heap).errors

\* the errors of the whole subtree of d: the children's, left to right, then
\* its own
RECURSIVE AllErrors(_)
RECURSIVE ChildErrors(_, _)
ChildErrors(d, i) ==
    IF i > Len(d.dependencies) THEN <<>>
    ELSE AllErrors(d.dependencies[i]) \o ChildErrors(d, i + 1)

AllErrors(d) == ChildErrors(d, 1) \o OwnErrors(d)

Returned(site) == {i \in Events({"return"}) : log[i].site = site}

HandlerEvents == Events({"handler_returned", "handler_raised"})

\* C3: when a scoped dependency has been entered and the request then fails
\* validation, the cleanup that follows its yield has run exactly once by the
\* time the wrapper is done.
C3_CleanupAfterValidationFailure ==
    (pc = "done" /\ Events({"invalid"}) # {}) =>
        \A i \in Events({"enter"}) :
            Cardinality({j \in Events({"cleanup"}) : log[j].value = log[i].value}) = 1

\* C4: the handler is invoked only when the walk of the whole tree left no
\* error; when a node has returned with an error, the handler is never
\* invoked and the wrapper raises the validation failure that carries the
\* errors of the whole tree.
C4_HandlerOnlyWithoutErrors ==
    (Walked /\ req.fails = {}) =>
        /\ HandlerEvents # {} => AllErrors(dependant) = <<>>
        /\ (pc = "done" /\ \E i \in Events({"return"}) : log[i].errors # <<>>)
           => /\ HandlerEvents = {}
              /\ pending = "RequestValidationError"
              /\ \E i \in Events({"invalid"}) : log[i].errors = AllErrors(dependant)

\* C5: when a child of a node has returned with errors, every child of the
\* node is resolved all the same, and the node returns with the errors of
\* all its children followed by its own.
C5_FailingChildDoesNotStopTheWalk ==
    (Walked /\ req.fails = {}) =>
        \A n \in Nodes :
            (\E c \in DOMAIN n.node.dependencies :
                 \E i \in Returned(Append(n.site, c)) : log[i].errors # <<>>)
            => /\ \A c \in DOMAIN n.node.dependencies : Returned(Append(n.site, c)) # {}
               /\ \E i \in Returned(n.site) : log[i].errors = AllErrors(n.node)

\* the calls of request_params_to_args solve_dependencies makes for node d
ParamSources(d) ==
    {[required_params |-> d.path_params, received_params |-> req.path_params,
      get_list |-> FALSE],
     [required_params |-> d.query_params, received_params |-> req.args,
      get_list |-> TRUE],
     [required_params |-> d.header_params, received_params |-> req.headers,
      get_list |-> TRUE],
     [required_params |-> d.cookie_params, received_params |-> req.cookies,
      get_list |-> FALSE]}

\* C6: for every required path, query, header or cookie field whose alias is
\* absent from the request, request_params_to_args records exactly one
\* missing error at (source, alias) and binds no value; and a request without
\* the required path parameter id ends with exactly one error at (path, id)
\* and without a call of the handler.
C6_MissingRequiredParam ==
    /\ req # NoRequest =>
          \A n \in Nodes : \A src \in ParamSources(n.node) :
              LET r == request_params_to_args(src.required_params, src.received_params,
                                              src.get_list, heap)
              IN  \A f \in Range(src.required_params) :
                      (f.required /\ DictGet(src.received_params, f.alias) = None)
                      => /\ r.raised = None
                         /\ Cardinality({i \in DOMAIN r.errors :
                                            r.errors[i].loc = <<f.in_, f.alias>>}) = 1
                         /\ \A i \in DOMAIN r.errors :
                                r.errors[i].loc = <<f.in_, f.alias>>
                                => r.errors[i].exc = "MissingError"
                         /\ f.name \notin DOMAIN r.values
    /\ (/\ pc = "done"
        /\ Walked
        /\ req.fails = {}
        /\ \E f \in Range(dependant.path_params) :
               f.alias = "id" /\ DictGet(req.path_params, "id") = None)
       => /\ HandlerEvents = {}
          /\ \E i \in Events({"invalid"}) :
                 Cardinality({j \in DOMAIN log[i].errors :
                                 log[i].errors[j].loc = <<"path", "id">>}) = 1

\* the values the binders have handed out in this request: to the handler
\* and to every sub-dependency that returned
BoundValues ==
    (IF IsNone(solved_result) THEN {}
     ELSE {solved_result.values[n] : n \in DOMAIN solved_result.values})
    \cup UNION {{log[i].values[n] : n \in DOMAIN log[i].values} : i \in Events({"return"})}

\* C7: a field that is optional and missing is bound to a deep copy of its
\* default: whatever the handlers of earlier requests did to the values they
\* were given, the stored defaults are unchanged, and every default that is
\* bound is a fresh object with the original content.
C7_DefaultIsDeepCopied ==
    /\ \A o \in DefaultObjects : heap[o] = "original"
    /\ \A v \in BoundValues :
           v.k = "object" => v.ref = Fresh /\ v.content = "original"

\* a handler was called with the default of a missing optional field, and
\* changed what it was given
C7_Witness ==
    /\ Events({"handler_returned"}) # {}
    /\ \E n \in DOMAIN solved_result.values : solved_result.values[n].k = "object"

\* the nodes of the tree that declare body fields
BodyHolders == {n \in Nodes : n.node.body_params # <<>>}

\* the wrapper has parsed the body of the request without raising
BodyParsed == pc \in {"solve", "call", "unwind"}

\* C8: in a tree with exactly one body field, which does not ask for
\* embedding, request_body_to_args hands the whole body payload to the field
\* as its raw value, a missing payload is the field's missing error or its
\* default, and every error is located at (body,) or below it.
C8_SoleBodyFieldTakesWholeBody ==
    BodyParsed =>
        \A n \in BodyHolders :
            (/\ BodyHolders = {n}
             /\ Len(n.node.body_params) = 1
             /\ ~n.node.body_params[1].embed)
            => LET f == n.node.body_params[1]
                   r == request_body_to_args(n.node.body_params, body, is_body_form, heap)
               IN  /\ r.raised = None
                   /\ \A i \in DOMAIN r.errors :
                          /\ r.errors[i].loc[1] = "body"
                          /\ Len(r.errors[i].loc) > 1
                             => body.k = "dict" /\ r.errors[i].loc[2] \in DOMAIN body.d
                   /\ r.errors = <<>> =>
                          /\ f.name \in DOMAIN r.values
                          /\ body.k # "none" => r.values[f.name].raw = body
                          /\ body.k = "none" => r.values[f.name].k = "object"

\* C9: in a tree with two or more body fields the body is a composite: each
\* field is looked up by its alias in the payload (a mapping, or nothing at
\* all), and gets its own value or its own error whatever happens to the
\* other fields.
C9_CompositeBodyByAlias ==
    LET count[S \in SUBSET BodyHolders] ==
            IF S = {} THEN 0
            ELSE LET n == CHOOSE m \in S : TRUE
                 IN  Len(n.node.body_params) + count[S \ {n}]
    IN  (BodyParsed /\ body.k \in {"none", "dict"} /\ count[BodyHolders] >= 2) =>
            /\ body_field.type_ = "Body_"
            /\ \A n \in BodyHolders :
                  LET r == request_body_to_args(n.node.body_params, body, is_body_form,
                                                heap)
                      raw(f) == IF body.k = "dict" THEN DictGet(body.d, f.alias) ELSE None
                      errs(f) == {i \in DOMAIN r.errors :
                                     r.errors[i].loc = <<"body", f.alias>>}
                  IN  /\ r.raised = None
                      /\ \A f \in Range(n.node.body_params) :
                            /\ (raw(f) = None /\ f.required)
                               => \E i \in errs(f) : r.errors[i].exc = "MissingError"
                            /\ (raw(f) = None /\ ~f.required)
                               => f.name \in DOMAIN r.values /\ errs(f) = {}
                            /\ raw(f) = "bad"
                               => \E i \in errs(f) : r.errors[i].exc = "ValidationError"
                            /\ raw(f) \notin {None, "bad"}
                               => /\ f.name \in DOMAIN r.values
                                  /\ r.values[f.name].raw = raw(f)
                                  /\ errs(f) = {}

\* the tree as get_dependant built it, before get_body_field saw it
Unregistered ==
    [get_dependant(dependant.call, None, TRUE) EXCEPT
        !.dependencies = [i \in DOMAIN dependant.dependencies |->
            get_dependant(dependant.dependencies[i].call, dependant.dependencies[i].name,
                          dependant.dependencies[i].use_cache)]]

RECURSIVE AllEmbedded(_)
AllEmbedded(d) ==
    /\ \A f \in Range(d.body_params) : f.embed
    /\ \A c \in Range(d.dependencies) : AllEmbedded(c)

\* C10: get_body_field returns None for a tree without body fields; it
\* returns the only field, and leaves the tree alone, exactly when the
\* flattened list holds one field that does not ask for embedding; in every
\* other case it sets the embed flag of every body field of the tree and
\* returns a composite whose sub-fields are the fields of the flattened list.
C10_BodyFieldSynthesis ==
    pc \notin {"unregistered", "failed"} =>
        LET flat == get_flat_dependant(Unregistered, FALSE, <<>>).flat.body_params
            sole == Len(flat) = 1 /\ ~flat[1].embed
        IN  /\ flat = <<>> => IsNone(body_field)
            /\ sole => body_field = flat[1] /\ dependant = Unregistered
            /\ (flat # <<>> /\ ~sole)
               => /\ body_field.type_ = "Body_"
                  /\ {body_field.sub_fields[n] : n \in DOMAIN body_field.sub_fields}
                         = {[f EXCEPT !.embed = TRUE] : f \in Range(flat)}
                  /\ AllEmbedded(dependant)

\* the Depends parameters of a callable, in the order of its signature
OwnDepends(call) ==
    LET sig == Signature(call)
        picked == {i \in DOMAIN sig : sig[i].p = "depends"}
        nth[n \in 0..Len(sig)] ==
            IF n = 0 THEN 0 ELSE CHOOSE i \in picked : i > nth[n - 1] /\ \A j \in picked :
                                     j > nth[n - 1] => i <= j
    IN  [n \in 1..Cardinality(picked) |-> sig[nth[n]]]

\* C11: after registration the children of the root are the instance-level
\* dependencies in their order, then the per-call dependencies in their
\* order, then the handler's own Depends parameters in declaration order;
\* the spliced ones carry no name.
C11_SplicedInFrontInOrder ==
    pc \notin {"unregistered", "failed"} =>
        LET extra == app_dependencies \o call_dependencies
            own == OwnDepends(dependant.call)
            children == dependant.dependencies
        IN  /\ Len(children) = Len(extra) + Len(own)
            /\ \A i \in DOMAIN extra :
                  /\ children[i].call = extra[i].dependency
                  /\ children[i].use_cache = extra[i].use_cache
                  /\ children[i].name = None
            /\ \A i \in DOMAIN own :
                  /\ children[Len(extra) + i].call = own[i].dependency
                  /\ children[Len(extra) + i].use_cache = own[i].use_cache
                  /\ children[Len(extra) + i].name = own[i].name

\* a handler with a Depends parameter of its own was registered behind an
\* instance-level and a different per-call dependency
C11_Witness ==
    /\ pc = "idle"
    /\ app_dependencies # <<>>
    /\ call_dependencies # <<>>
    /\ app_dependencies[1] # call_dependencies[1]
    /\ OwnDepends(dependant.call) # <<>>

\* the values the binders give for the fields of d itself, merged in the
\* order of solve_dependencies
OwnValues(d) ==
    DictUpdate(DictUpdate(DictUpdate(DictUpdate(
        request_params_to_args(d.path_params, req.path_params, FALSE, heap).values,
        request_params_to_args(d.query_params, req.args, TRUE, heap).values),
        request_params_to_args(d.header_params, req.headers, TRUE, heap).values),
        request_params_to_args(d.cookie_params, req.cookies, FALSE, heap).values),
        request_body_to_args(d.body_params, body, is_body_form, heap).values)

\* C12: for a handler without dependencies solve_dependencies returns, and
\* what it returns is what the binders give for the handler's own path,
\* query, header, cookie and body fields: the same errors, and the same
\* value for every field (next to them only the response object, under the
\* name of the parameter that asks for it).
C12_NoDependenciesIsDirectBinding ==
    (Walked /\ dependant.dependencies = <<>>) =>
        \E i \in Returned(<<>>) :
            /\ log[i].errors = OwnErrors(dependant)
            /\ \A n \in DOMAIN OwnValues(dependant) :
                   n \in DOMAIN log[i].values /\ log[i].values[n] = OwnValues(dependant)[n]
            /\ DOMAIN log[i].values \ DOMAIN OwnValues(dependant)
                   \subseteq {dependant.response_param_name}

\* the header fields of the registered tree, each with its node
HeaderFields ==
    UNION {{[node |-> n.node, field |-> f] : f \in Range(n.node.header_params)} :
           n \in Nodes}

\* what request_params_to_args does with the headers of the request for
\* field f of node d: the key it reads is `key`
ReadsHeaderKey(d, f, key) ==
    LET r == request_params_to_args(d.header_params, req.headers, TRUE, heap)
    IN  /\ r.raised = None
        /\ DictGet(req.headers, key) # None
           => f.name \in DOMAIN r.values /\ r.values[f.name].k = "typed"
              /\ r.values[f.name].raw = DictGet(req.headers, key)
        /\ (DictGet(req.headers, key) = None /\ f.required)
           => \E i \in DOMAIN r.errors : r.errors[i] = get_missing_field_error(<<"header", key>>)
        /\ (DictGet(req.headers, key) = None /\ ~f.required)
           => f.name \in DOMAIN r.values /\ r.values[f.name].k = "object"

\* C13: a Header field declared without an alias gets its parameter name
\* with the first character in upper case as its alias (x_token: X_token),
\* and request_params_to_args reads the headers of the request under that
\* key.
C13_HeaderAliasFromName ==
    pc \notin {"unregistered", "failed"} =>
        \A h \in HeaderFields :
            h.field.info_alias = None =>
                /\ Chars(h.field.alias)
                       = <<Upper(Head(Chars(h.field.name)))>> \o Tail(Chars(h.field.name))
                /\ h.field.name = "x_token" => h.field.alias = "X_token"
                /\ req # NoRequest => ReadsHeaderKey(h.node, h.field, h.field.alias)

\* the handler was called with the value the request carries under X_token,
\* while the request carries nothing under x_token
C13_Witness ==
    /\ Events({"handler_returned"}) # {}
    /\ DictGet(req.headers, "X_token") = "v"
    /\ DictGet(req.headers, "x_token") = None
    /\ "x_token" \in DOMAIN solved_result.values
    /\ solved_result.values["x_token"].raw = "v"

\* C14 as the specification states it: the alias of a field whose marker
\* carries an alias is exactly that alias, header fields included.
C14_ExplicitAliasVerbatim ==
    pc \notin {"unregistered", "failed"} =>
        \A n \in Nodes :
            \A f \in Range(n.node.path_params) \cup Range(n.node.query_params)
                     \cup Range(n.node.header_params) \cup Range(n.node.cookie_params)
                     \cup Range(n.node.body_params) :
                f.info_alias # None => f.alias = f.info_alias

\* C14: the alias given to a marker wins over the parameter name: it is the
\* alias of the field as it stands, except that the alias of a header field
\* gets its first character in upper case, given or not; the request is read
\* under that alias.
C14_ExplicitAliasWins ==
    pc \notin {"unregistered", "failed"} =>
        \A n \in Nodes :
            /\ \A f \in Range(n.node.path_params) \cup Range(n.node.query_params)
                        \cup Range(n.node.cookie_params) \cup Range(n.node.body_params) :
                   f.info_alias # None => f.alias = f.info_alias
            /\ \A f \in Range(n.node.header_params) :
                   f.info_alias # None =>
                       /\ Chars(f.alias) = <<Upper(Head(Chars(f.info_alias)))>>
                                               \o Tail(Chars(f.info_alias))
                       /\ Tail(Chars(f.alias)) # Tail(Chars(f.name))
                       /\ req # NoRequest => ReadsHeaderKey(n.node, f, f.alias)

\* the handler was called with the value the request carries under
\* User-agent for its parameter agent, declared Header(alias="user-agent")
C14_Witness ==
    /\ Events({"handler_returned"}) # {}
    /\ DictGet(req.headers, "User-agent") = "v"
    /\ DictGet(req.headers, "user-agent") = None
    /\ "agent" \in DOMAIN solved_result.values
    /\ solved_result.values["agent"].raw = "v"

\* the errors request_params_to_args gives for the nodes of the tree
ParamErrors ==
    UNION {Range(request_params_to_args(src.required_params, src.received_params,
                                        src.get_list, heap).errors) :
           src \in UNION {ParamSources(n.node) : n \in Nodes}}

\* the request has a payload that json.loads rejects, for a handler whose
\* body is read as json
MalformedBody ==
    /\ req # NoRequest
    /\ ~IsNone(body_field) /\ ~is_body_form
    /\ req.data.k = "malformed"
    /\ req.content_type \in {None, "application/json"}

BodyParseLocs == {<<"body">>, <<"body", "pos">>}

\* C15 as the specification states it: the error of a malformed body is in
\* one error list with the binding errors of the request.
C15_ParseErrorJoinsBindingErrors ==
    (MalformedBody /\ pc = "done") =>
        \E i \in Events({"invalid"}) :
            /\ Cardinality({j \in DOMAIN log[i].errors :
                               log[i].errors[j].loc \in BodyParseLocs}) = 1
            /\ ParamErrors \subseteq Range(log[i].errors)
            /\ HandlerEvents = {}

\* C15: a malformed body makes the wrapper raise the validation failure at
\* once, with an error list that holds one error, at (body,) or
\* (body, offset), and nothing else: no dependency is resolved, no field is
\* bound, nothing is entered and the handler is not invoked.
C15_ParseErrorRaisedAlone ==
    MalformedBody =>
        /\ pc = "done"
        /\ pending = "RequestValidationError"
        /\ Len(log) = 1
        /\ log[1].ev = "invalid"
        /\ Len(log[1].errors) = 1
        /\ log[1].errors[1].loc \in BodyParseLocs
        /\ stack = <<>>
        /\ IsNone(solved_result)

\* a request with a malformed body and without a required parameter has
\* been answered
C15_Witness ==
    /\ MalformedBody
    /\ pc = "done"
    /\ \E e \in ParamErrors : e.exc = "MissingError"

\* the values a request produced, cached, holds open or released
Produced(t) ==
    {threads[t].log[i].value :
        i \in {j \in DOMAIN threads[t].log : threads[t].log[j].ev \in {"call", "enter"}}}
Used(t) ==
    {threads[t].log[i].value :
        i \in {j \in DOMAIN threads[t].log :
                  threads[t].log[j].ev \in {"cache", "exit", "cleanup"}}}
    \cup {threads[t].stack[n].value : n \in DOMAIN threads[t].stack}
    \cup {threads[t].dependency_cache[k] : k \in DOMAIN threads[t].dependency_cache}

\* C16: for any interleaving of two requests served by the same built
\* handler, every value a request takes from its cache, holds on its stack
\* of scoped resources or releases is one this very request produced, so
\* none is reused or released by the other request; and a request invokes a
\* dependency that is cache-enabled at every site at most once, and exactly
\* once when its resolution reached the handler.
C16_CacheAndStackPerRequest ==
    pc \notin {"unregistered", "failed"} =>
    \A t \in Threads :
        /\ \A v \in Produced(t) : v.request = t
        /\ Used(t) \subseteq Produced(t)
        /\ \A u \in Threads \ {t} : Used(t) \cap Produced(u) = {}
        /\ \A k \in DepCalls :
              (SitesOf(k) # {} /\ \A s \in SitesOf(k) : s.node.use_cache)
              => LET n == Cardinality({i \in DOMAIN threads[t].log :
                                          /\ threads[t].log[i].ev \in {"call", "enter"}
                                          /\ threads[t].log[i].call = k})
                 IN  /\ n <= 1
                     /\ threads[t].pc = "call" => n = 1

\* both requests are in flight at once: each has resolved the tree, taken a
\* value from its cache and holds a scoped resource, and neither has
\* started to unwind
C16_Witness ==
    \A t \in Threads :
        /\ threads[t].pc = "call"
        /\ threads[t].stack # <<>>
        /\ \E i \in DOMAIN threads[t].log : threads[t].log[i].ev = "cache"

\* the callables get_dependant is called for when the decorator is applied:
\* the handler, the instance-level and per-call dependencies, and what
\* these depend on
RECURSIVE Needs(_)
Needs(call) ==
    {call} \cup UNION {Needs(Signature(call)[i].dependency) :
                          i \in {j \in DOMAIN Signature(call) :
                                    Signature(call)[j].p = "depends"}}
Analysed ==
    Needs(decorated)
    \cup UNION {Needs((app_dependencies \o call_dependencies)[i].dependency) :
                   i \in DOMAIN (app_dependencies \o call_dependencies)}

\* the parameters without default and without marker whose type is a list
\* or a model
NonScalarEmpty(call) ==
    {i \in DOMAIN Signature(call) :
        /\ Signature(call)[i].p = "empty"
        /\ \/ Signature(call)[i].field.shape # "singleton"
           \/ Signature(call)[i].field.type_ \in ModelTypes \cup sequence_types}

\* C17: when the handler, or a callable it is made to depend on, has a
\* parameter without default and without marker whose type is not scalar,
\* applying the decorator fails: no Dependant tree and no view function
\* exist, and no request is ever received, resolved or answered.
C17_NonScalarFailsAtRegistration ==
    (decorated # None /\ \E call \in Analysed : NonScalarEmpty(call) # {})
    => /\ pc = "failed"
       /\ IsNone(dependant)
       /\ IsNone(body_field)
       /\ req = NoRequest
       /\ log = <<>>
       /\ stack = <<>>

\* the decorator was applied to a handler that depends, per call, on a
\* callable with a List[int] parameter without default, and failed
C17_Witness ==
    /\ pc = "failed"
    /\ decorated = "list_items"
    /\ call_dependencies = <<Depends("batch", TRUE)>>

\* the raise events of dependencies that failed while they were invoked
InvocationRaises ==
    {i \in Events({"raise"}) : log[i].call \in req.fails /\ log[i].site # <<>>}

\* no validation error was reported for the request
NothingMerged ==
    /\ Events({"invalid"}) = {}
    /\ pending # "RequestValidationError"
    /\ ~IsNone(solved_result) => solved_result.errors = <<>>

\* C18 as claimed: an exception raised by the handler or by a non-generator
\* dependency while it is invoked travels up the wrapper as it was raised,
\* its response attribute included, and no validation error is reported.
C18_PropagatesUnmodified ==
    (pc \in {"unwind", "done"}) =>
        /\ \A i \in InvocationRaises :
              /\ pending = log[i].value.k
              /\ exc_response = raised_response(pending)
              /\ NothingMerged
        /\ Events({"handler_raised"}) # {} =>
              /\ pending \in HandlerOutcomes \ {None}
              /\ exc_response = raised_response(pending)
              /\ NothingMerged

\* C18: an exception raised by the handler or by a non-generator dependency
\* while it is invoked travels up the wrapper as the same exception, and no
\* validation error is reported.  An exception of the handler is untouched;
\* an HTTPException raised by a dependency has its response attribute set
\* to the response object of the request; any other exception of a
\* dependency is untouched.
C18_PropagatesWithResponseSet ==
    (pc \in {"unwind", "done"}) =>
        /\ \A i \in InvocationRaises :
              /\ pending = log[i].value.k
              /\ exc_response = IF pending = "HTTPException" THEN "response" ELSE Unset
              /\ NothingMerged
        /\ Events({"handler_raised"}) # {} =>
              /\ pending \in HandlerOutcomes \ {None}
              /\ exc_response = IF pending = "HTTPException" THEN None ELSE Unset
              /\ NothingMerged

\* auth raised an HTTPException while it was invoked, and the exception has
\* left the wrapper
C18_Witness ==
    /\ pc = "done"
    /\ pending = "HTTPException"
    /\ \E i \in InvocationRaises : log[i].call = "auth"

\* the events of the resolution walk: own parameters bound ("return"), a
\* callable invoked or taken from the cache, an exception
WalkEvents == Events({"return", "call", "enter", "cache", "raise"})
Invocations == Events({"call", "enter", "cache"}) \cup InvocationRaises

IsProperPrefix(a, b) == Len(a) < Len(b) /\ SubSeq(b, 1, Len(a)) = a

\* site a lies in the subtree of an earlier child than site b does
Leftmost(a, b) ==
    \E n \in 1..Len(a) :
        /\ n <= Len(b)
        /\ SubSeq(a, 1, n - 1) = SubSeq(b, 1, n - 1)
        /\ a[n] < b[n]

\* C19: the walk is depth-first and left-to-right.  Of two events of the
\* walk, the earlier one never belongs to a later child's subtree, and
\* never to a node above the node of the later one; a node's own
\* parameters are bound before its callable is invoked.  When something
\* happens below a child, every earlier child of the same node has been
\* resolved, and invoked (or taken from the cache) unless it had errors;
\* when a node's own parameters are bound, all its children have been
\* resolved.
C19_DepthFirstLeftToRight ==
    pc \notin {"unregistered", "failed"} =>
    /\ \A i, j \in WalkEvents :
          i < j => /\ ~Leftmost(log[j].site, log[i].site)
                   /\ ~IsProperPrefix(log[i].site, log[j].site)
                   /\ log[i].site = log[j].site =>
                         log[i].ev = "return" /\ j \in Invocations
    /\ \A j \in WalkEvents :
          \A s \in SitesFrom(dependant, <<>>) :
              (\/ Leftmost(s.site, log[j].site)
               \/ IsProperPrefix(log[j].site, s.site) /\ log[j].ev = "return")
              => \E i \in Events({"return"}) :
                    /\ i < j
                    /\ log[i].site = s.site
                    /\ log[i].errors = <<>> =>
                          \E k \in Invocations : k < j /\ log[k].site = s.site

\* a tree with two children, the second of which has a child of its own,
\* was resolved to the end: the handler's own parameters are bound
C19_Witness ==
    /\ pc = "call"
    /\ Len(dependant.dependencies) > 1
    /\ dependant.dependencies[2].dependencies # <<>>
    /\ \E j \in Events({"return"}) : log[j].site = <<>>

\* the sub-dependant the walk reaches by the path `site`
NodeAt(site) == (CHOOSE s \in SitesFrom(dependant, <<>>) : s.site = site).node

\* the node of the tree at the path `site`, the handler's node for <<>>
NodeOrRoot(site) == IF site = <<>> THEN dependant ELSE NodeAt(site)

\* the invocations of occurrences declared with use_cache=False
UncachedInvocations ==
    {i \in Events({"call", "enter"}) : ~NodeAt(log[i].site).use_cache}

\* the steps at which a cache-enabled occurrence of the callable invoked at
\* step i gets its value, after step i
LaterCached(i) ==
    {j \in Events({"call", "enter", "cache"}) :
        /\ j > i
        /\ log[j].call = log[i].call
        /\ NodeAt(log[j].site).use_cache}

\* C20 as claimed: the value an occurrence with use_cache=false was
\* resolved to is the one every later cache-enabled occurrence of the same
\* key gets in the same request, without another invocation.
C20_UncachedValueReused ==
    pc \notin {"unregistered", "failed"} =>
        \A i \in UncachedInvocations : \A j \in LaterCached(i) :
            log[j].ev = "cache" /\ log[j].value = log[i].value

\* C20: after an occurrence with use_cache=false was resolved, every later
\* cache-enabled occurrence of the same key in the same request takes its
\* value from the cache without another invocation; the value is the one
\* the first resolved occurrence of the key produced, which is that of the
\* use_cache=false occurrence only when the key held nothing before it.
C20_FirstValueReused ==
    pc \notin {"unregistered", "failed"} =>
        \A i \in UncachedInvocations : \A j \in LaterCached(i) :
            LET first == CHOOSE k \in Events({"call", "enter"}) :
                            /\ log[k].call = log[i].call
                            /\ \A m \in Events({"call", "enter"}) :
                                  log[m].call = log[i].call => k <= m
            IN  /\ log[j].ev = "cache"
                /\ log[j].value = log[first].value
                /\ first = i \/ log[first].value # log[i].value

\* a callable was invoked for a cache-enabled occurrence, invoked again for
\* an occurrence with use_cache=false, and a third, cache-enabled
\* occurrence then took its value from the cache
C20_Witness ==
    \E i \in UncachedInvocations :
        /\ \E k \in Events({"call", "enter"}) : k < i /\ log[k].call = log[i].call
        /\ \E j \in LaterCached(i) : log[j].ev = "cache"

\* the sites whose resolution reported errors of their own subtree
FailedSites ==
    {log[i].site : i \in {j \in Events({"return"}) :
                             log[j].site # <<>> /\ log[j].errors # <<>>}}

\* the values the invocations at sites without errors produced
CleanlyProduced ==
    {log[i].value : i \in {j \in Events({"call", "enter"}) :
                              log[j].site \notin FailedSites}}

\* C21: a sub-dependency whose own subtree reported an error is neither
\* invoked nor entered nor read from the cache; the node above it binds no
\* value under its name; and whatever the dependency cache holds after the
\* walk was produced by an invocation at a site without errors.
C21_FailedSubtreeIsNotInvoked ==
    pc \notin {"unregistered", "failed"} =>
        /\ \A i \in Events({"call", "enter", "cache", "raise"}) :
              log[i].site \in FailedSites => i \notin Invocations
        /\ \A j \in Events({"return"}) :
              \A n \in DOMAIN NodeOrRoot(log[j].site).dependencies :
                  LET child == NodeOrRoot(log[j].site).dependencies[n]
                  IN  (Append(log[j].site, n) \in FailedSites /\ child.name # None)
                      => child.name \notin DOMAIN log[j].values
        /\ ~IsNone(solved_result) =>
              \A k \in DOMAIN solved_result.dependency_cache :
                  solved_result.dependency_cache[k] \in CleanlyProduced

\* the walk is over: a named sub-dependency of the handler reported an
\* error, while another sub-dependency was invoked and its value cached
C21_Witness ==
    /\ pc = "unwind"
    /\ ~IsNone(solved_result)
    /\ \E n \in DOMAIN dependant.dependencies :
          <<n>> \in FailedSites /\ dependant.dependencies[n].name # None
    /\ DOMAIN solved_result.dependency_cache # {}

Sources == {"path", "query", "header", "cookie", "body"}

ListOf(d, source) ==
    CASE source = "path" -> d.path_params
      [] source = "query" -> d.query_params
      [] source = "header" -> d.header_params
      [] source = "cookie" -> d.cookie_params
      [] OTHER -> d.body_params

\* the nodes of the tree in pre-order: a node before its children, the
\* children in declaration order
RECURSIVE PreOrder(_)
RECURSIVE PreOrderOf(_, _)
PreOrderOf(subs, i) ==
    IF i > Len(subs) THEN <<>> ELSE PreOrder(subs[i]) \o PreOrderOf(subs, i + 1)
PreOrder(d) == <<d>> \o PreOrderOf(d.dependencies, 1)

\* the fields of one source of a list of nodes, node after node; with
\* `once`, only the first node of every cache key counts
RECURSIVE FieldsOf(_, _, _, _)
FieldsOf(nodes, source, once, i) ==
    IF i > Len(nodes) THEN <<>>
    ELSE (IF once /\ \E j \in 1..(i - 1) : cache_key(nodes[j]) = cache_key(nodes[i])
          THEN <<>> ELSE ListOf(nodes[i], source))
         \o FieldsOf(nodes, source, once, i + 1)

\* C22: for the registered tree and each source, get_flat_dependant gives
\* the fields of the nodes in pre-order; with skip_repeats, the fields of
\* the first node of every cache key in pre-order and of no other node, so
\* that a key contributes its fields once; and the tree it was given has
\* the same field lists after the call.  The tree is the one the route
\* handler closes over: it is final once the callable is registered.
C22_FlatIsPreOrder ==
    pc = "idle" =>
        \A skip_repeats \in BOOLEAN :
            LET r == get_flat_dependant(dependant, skip_repeats, <<>>)
            IN  /\ \A source \in Sources :
                      ListOf(r.flat, source)
                          = FieldsOf(PreOrder(dependant), source, skip_repeats, 1)
                /\ r.dependant = dependant

\* the registered tree holds the same callable, with fields of its own, at
\* two places, one of them below another sub-dependant
C22_Witness ==
    /\ pc \notin {"unregistered", "failed"}
    /\ \E i, j \in DOMAIN PreOrder(dependant) :
          /\ i < j
          /\ cache_key(PreOrder(dependant)[i]) = cache_key(PreOrder(dependant)[j])
          /\ PreOrder(dependant)[j].query_params # <<>>
    /\ \E n \in DOMAIN dependant.dependencies :
          dependant.dependencies[n].dependencies # <<>>
    /\ get_flat_dependant(dependant, TRUE, <<>>).flat.query_params
          # get_flat_dependant(dependant, FALSE, <<>>).flat.query_params

\* the node declares a response-sink parameter
DeclaresSink(d) == d.response_param_name \notin {None, Unset}

\* the exceptions solve_dependencies itself raised while it bound a node
OwnRaises == Events({"raise"}) \ InvocationRaises

\* C23: a node that declares a response-sink parameter gets the response
\* object of the request under that name, a node that declares none gets no
\* response object in its values, and the resolution of a node that
\* declares none is never ended by an exception of the resolver.
C23_ResponseBoundWhenDeclared ==
    pc \notin {"unregistered", "failed"} =>
        /\ \A j \in Events({"return"}) :
              LET node == NodeOrRoot(log[j].site)
                  holders == {n \in DOMAIN log[j].values :
                                 log[j].values[n] = ResponseObject}
              IN  holders = IF DeclaresSink(node) THEN {node.response_param_name}
                            ELSE {}
        /\ \A i \in OwnRaises : DeclaresSink(NodeOrRoot(log[i].site))

\* C24: no node of a tree get_dependant built has, in its own path, query,
\* header or cookie list, two fields with the same alias.
C24_NoDuplicateAliases ==
    pc \notin {"unregistered", "failed"} =>
        \A n \in DOMAIN PreOrder(dependant) :
            \A source \in Sources \ {"body"} :
                LET fields == ListOf(PreOrder(dependant)[n], source)
                IN  \A i, j \in DOMAIN fields :
                        fields[i].alias = fields[j].alias => i = j

\* every callable of the tree declares a response-sink parameter, and no
\* body field of the tree is read through the multi-value lookup
SinksEverywhere ==
    \A n \in DOMAIN PreOrder(dependant) :
        /\ DeclaresSink(PreOrder(dependant)[n])
        /\ \A i \in DOMAIN PreOrder(dependant)[n].body_params :
              PreOrder(dependant)[n].body_params[i].shape \notin sequence_shapes

\* the node's own path, query, header and cookie fields
OwnParams(d) == d.path_params \o d.query_params \o d.header_params \o d.cookie_params

\* C25: when no dependency callable raises, the walk reaches the end for
\* every request: every node of the tree is resolved, and each of its path,
\* query, header and cookie fields, sequence-shaped ones included, ends
\* with a value under its name or with an error at its location.
C25_BindingNeverInterruptsTheWalk ==
    (pc \notin {"unregistered", "failed"} /\ Walked /\ req.fails = {} /\ SinksEverywhere)
    => /\ OwnRaises = {}
       /\ \A s \in SitesFrom(dependant, <<>>) \cup {[site |-> <<>>, node |-> dependant]} :
             \E j \in Events({"return"}) :
                 /\ log[j].site = s.site
                 /\ \A i \in DOMAIN OwnParams(s.node) :
                       LET f == OwnParams(s.node)[i]
                       IN  \/ f.name \in DOMAIN log[j].values
                           \/ \E e \in DOMAIN log[j].errors :
                                 log[j].errors[e].loc = <<f.in_, f.alias>>

Count(e, list) == Cardinality({i \in DOMAIN list : list[i] = e})

\* C26: when no dependency callable raises, every occurrence of a
\* sub-dependency in the tree is resolved for the request, also one whose
\* value comes from the cache, and the handler's node returns the errors of
\* all occurrences: an error of a field of a callable that occurs at k
\* sites is k times in the aggregated list.
C26_EveryOccurrenceIsBound ==
    (pc \notin {"unregistered", "failed"} /\ Walked /\ req.fails = {}) =>
        /\ \A s \in SitesFrom(dependant, <<>>) : Returned(s.site) # {}
        /\ \A s \in SitesFrom(dependant, <<>>) :
              \A e \in Range(OwnErrors(s.node)) :
                  \E j \in Returned(<<>>) :
                      /\ log[j].errors = AllErrors(dependant)
                      /\ Count(e, log[j].errors) >= Cardinality(SitesOf(s.node.call))

(***************************************************************************)
(* C27: fork_sub_dependant leaves the parent's exception-handler mapping   *)
(* and dependency list unchanged; the mapping of the forked instance holds *)
(* every handler passed to the fork, plus the parent's handler for every   *)
(* exception type the fork did not override, and its dependency list is    *)
(* the parent's dependencies followed by the fork's.                       *)
(***************************************************************************)
\* the handlers passed to a fork, as a mapping
Passed(exception_handlers) ==
    IF IsNone(exception_handlers) THEN EmptyDict ELSE exception_handlers.dict

C27_ForkLeavesParentAndInherits ==
    [][\A p \in DOMAIN apps, exception_handlers \in HandlerArguments,
          dependencies \in ForkDependencies :
            Fork(p, exception_handlers, dependencies) =>
                LET own == handler_dicts[apps[p].exception_handlers]
                    forked == apps'[Len(apps')]
                    handlers == handler_dicts'[forked.exception_handlers]
                    passed == Passed(exception_handlers)
                IN  /\ apps'[p] = apps[p]
                    /\ handler_dicts'[apps[p].exception_handlers] = own
                    /\ DOMAIN handlers = DOMAIN passed \cup DOMAIN own
                    /\ \A k \in DOMAIN passed : handlers[k] = passed[k]
                    /\ \A k \in DOMAIN own \ DOMAIN passed : handlers[k] = own[k]
                    /\ forked.dependencies = apps[p].dependencies \o dependencies]_vars

\* an instance with handlers of its own and a dependency has been forked
\* with a handler that overrides one of them and with a dependency more
C27_Witness ==
    \E p \in DOMAIN apps, c \in DOMAIN apps :
        LET own == handler_dicts[apps[p].exception_handlers]
            handlers == handler_dicts[apps[c].exception_handlers]
        IN  /\ p < c
            /\ apps[p].dependencies # <<>>
            /\ apps[c].dependencies = apps[p].dependencies \o <<Depends("session", TRUE)>>
            /\ DictGet(own, "KeyError") = "on_key_error"
            /\ DictGet(own, "HTTPException") = "http_exception_handler"
            /\ DictGet(handlers, "KeyError") = "on_key_error"
            /\ DictGet(handlers, "HTTPException") = "on_http_error"

(***************************************************************************)
(* C28: field classification terminates: is_scalar_field returns for every *)
(* field, a singleton-shaped field with a non-empty list of sub-fields     *)
(* (such as a union) included, after a number of recursive calls bounded   *)
(* by the field's nesting.                                                 *)
(***************************************************************************)
\* the fields nested in a field, itself included
RECURSIVE NestedFields(_)
RECURSIVE NestedIn(_, _)
NestedIn(fields, i) ==
    IF i > Len(fields) THEN 0 ELSE NestedFields(fields[i]) + NestedIn(fields, i + 1)

NestedFields(field) == 1 + NestedIn(sub_fields(field), 1)

\* the fields of the parameters the decorated callable declares
DeclaredFields ==
    {Signature(decorated)[i].field :
        i \in {j \in DOMAIN Signature(decorated) :
                  Signature(decorated)[j].p \in {"empty", "field"}}}

C28_ClassificationTerminates ==
    decorated # None =>
        \A field \in DeclaredFields :
            /\ ~is_scalar_field_call(field, 1).raised
            /\ is_scalar_field_call(field, 1).calls <= NestedFields(field)

====
